---- MODULE Spec2Model ----
(***************************************************************************)
(* Model of src/src/claude_history.py: ClaudeHistoryColoredFormatter.      *)
(*   parse                      reads the JSONL log line by line            *)
(*   _build_conversation_pairs  groups entries into conversation pairs      *)
(*   _find_tool_result          looks a ToolUse's result up in a pair       *)
(*   _format_tool_result, _generate_diff_from_tool_input,                  *)
(*   _format_diff_line_with_inline_highlight   render an edit              *)
(*   format_assistant_response  renders the ToolUses of a response         *)
(*   format_entries             prints the conversation pairs              *)
(* and of interactive_menu and the settings of InteractiveSession.         *)
(*                                                                         *)
(* Python indices are 0-based; sequences here are 1-based, so the entry    *)
(* at Python index n is es[n + 1].  A pair holds references to entry       *)
(* objects; a reference is modelled by the entry's index in self.entries.  *)
(***************************************************************************)
EXTENDS Integers, Sequences, FiniteSets, TLC

VARIABLES
    log,                 \* the lines of history_file, in file order
    lineNo,              \* number of lines the for-loop of parse has consumed
    stderr,              \* number of diagnostics printed to sys.stderr
    entries,             \* self.entries
    conversation_pairs,  \* self.conversation_pairs
    i,                   \* cursor of the outer while of _build_conversation_pairs
    pc,                  \* position of the running method
    tool,                \* argument `tool` of _find_tool_result
    tool_results,        \* argument `tool_results` of _find_tool_result
    fidx,                \* position of the for-loop of _find_tool_result
    ret,                 \* outcome of _find_tool_result
    old_string,          \* tool['input']['old_string'] of an Edit ToolUse
    new_string,          \* tool['input']['new_string'] of an Edit ToolUse
    diff_lines,          \* the list _generate_diff_from_tool_input returned
    patches,             \* result['structuredPatch'], a list of hunk records
    hunkNo,              \* number of elements of `patches` a loop has taken
    line_idx,            \* index of enumerate() over the diff lines
    line_num,            \* line counter of the raw-text path
    old_line_num,        \* old-side counter of the structured-patch path
    new_line_num,        \* new-side counter of the structured-patch path
    additions,           \* additions total of the 'Modified' header
    deletions,           \* deletions total of the 'Modified' header
    output_lines,        \* the rows appended to output_lines
    tool_name,           \* tool.get('name', 'Unknown') of the ToolUse rendered
    resp_lines,          \* `lines` of format_assistant_response, for one ToolUse
    calls,               \* number of calls made again on the same formatter
    last_user_message,   \* `last_user_message` of format_entries
    output,              \* `output` of format_entries
    items,               \* argument `items` of interactive_menu
    selected,            \* `selected` of interactive_menu
    window_start,        \* `window_start` of interactive_menu
    window_end,          \* `window_end` of interactive_menu
    key,                 \* the last key get_key returned to interactive_menu
    choice,              \* what interactive_menu returned
    args,                \* the parsed command line of main
    settings             \* session.settings of the InteractiveSession

\* The variables of the other methods.
entriesVars == <<last_user_message, output>>

menuVars == <<items, selected, window_start, window_end, key, choice>>

sessionVars == <<args, settings>>

viewVars == <<entriesVars, menuVars, sessionVars>>

extraVars == <<tool_name, resp_lines, calls, viewVars>>

coreVars == <<log, lineNo, stderr, entries, conversation_pairs, i,
              tool, tool_results, fidx, ret, extraVars>>

diffVars == <<old_string, new_string, diff_lines, patches, hunkNo, line_idx,
              line_num, old_line_num, new_line_num, additions, deletions,
              output_lines>>

vars == <<coreVars, pc, diffVars>>

----------------------------------------------------------------------------
(* Bounds of the model.                                                    *)

MaxEntries == 5
MaxLog == 4
MaxResults == 3

----------------------------------------------------------------------------
(* Values.                                                                 *)

\* Python's None (a missing key read with dict.get).
None == "None"

\* A parsed record, reduced to what the assembler reads of it: its 'type'
\* and whether it has a 'toolUseResult' key.
EntryTypes == {"user", "assistant", "system"}

Entries == [type : EntryTypes, toolUseResult : BOOLEAN]

\* All sequences over S of length at most n.
SeqUpTo(S, n) == UNION {[1..m -> S] : m \in 0..n}

----------------------------------------------------------------------------
(* _build_conversation_pairs                                               *)

\* Bug variant of CollectToolResults: the 'toolUseResult' test is forgotten,
\* every 'user' record is taken for a tool result.
RECURSIVE CollectToolResults_AnyUser(_, _, _)
CollectToolResults_AnyUser(es, k, results) ==
    IF k < Len(es)
    THEN LET result_entry == es[k + 1] IN
         IF result_entry.type = "user"
         THEN CollectToolResults_AnyUser(es, k + 1, Append(results, k))
         ELSE [k |-> k, tool_results |-> results]
    ELSE [k |-> k, tool_results |-> results]

\* Bug variant of CollectToolResults: an `if` in place of the `while`, at
\* most one tool result is collected.
CollectToolResults_AtMostOne(es, k, results) ==
    IF k < Len(es) /\ es[k + 1].type = "user" /\ es[k + 1].toolUseResult
    THEN [k |-> k + 1, tool_results |-> Append(results, k)]
    ELSE [k |-> k, tool_results |-> results]

\* Bug variant of CollectToolResults: the loop steps over records that are
\* neither user nor assistant records instead of stopping at them.
RECURSIVE CollectToolResults_SkipOther(_, _, _)
CollectToolResults_SkipOther(es, k, results) ==
    IF k < Len(es)
    THEN LET result_entry == es[k + 1] IN
         IF result_entry.type = "user" /\ result_entry.toolUseResult
         THEN CollectToolResults_SkipOther(es, k + 1, Append(results, k))
         ELSE IF result_entry.type \notin {"user", "assistant"}
         THEN CollectToolResults_SkipOther(es, k + 1, results)
         ELSE [k |-> k, tool_results |-> results]
    ELSE [k |-> k, tool_results |-> results]

\* The inner-most while: collect the tool results that follow an assistant
\* response, from index k on.  Yields the final k and pair['tool_results'].
RECURSIVE CollectToolResults(_, _, _)
CollectToolResults(es, k, results) ==
    IF k < Len(es)
    THEN LET result_entry == es[k + 1] IN
         IF result_entry.type = "user" /\ result_entry.toolUseResult
         THEN CollectToolResults(es, k + 1, Append(results, k))
         ELSE [k |-> k, tool_results |-> results]
    ELSE [k |-> k, tool_results |-> results]

\* Bug variant of InnerLoop: the `break` at the next user message is missing.
RECURSIVE InnerLoop_NoBreak(_, _, _, _, _)
InnerLoop_NoBreak(es, u, j, last_processed_index, pairs) ==
    IF j < Len(es)
    THEN LET next_entry == es[j + 1] IN
         IF next_entry.type = "assistant"
         THEN LET c == CollectToolResults(es, j + 1, <<>>)
                  pair == [user_message |-> u,
                           assistant_response |-> j,
                           tool_results |-> c.tool_results]
              IN InnerLoop_NoBreak(es, u, c.k, c.k - 1, Append(pairs, pair))
         ELSE InnerLoop_NoBreak(es, u, j + 1, last_processed_index, pairs)
    ELSE [pairs |-> pairs, last_processed_index |-> last_processed_index,
          j |-> j]

\* Bug variant of InnerLoop: the loop is left after the first pair of a turn.
RECURSIVE InnerLoop_FirstOnly(_, _, _, _, _)
InnerLoop_FirstOnly(es, u, j, last_processed_index, pairs) ==
    IF j < Len(es)
    THEN LET next_entry == es[j + 1] IN
         IF next_entry.type = "user" /\ ~next_entry.toolUseResult
         THEN [pairs |-> pairs, last_processed_index |-> last_processed_index,
               j |-> j]
         ELSE IF next_entry.type = "assistant"
         THEN LET c == CollectToolResults(es, j + 1, <<>>)
                  pair == [user_message |-> u,
                           assistant_response |-> j,
                           tool_results |-> c.tool_results]
              IN [pairs |-> Append(pairs, pair),
                  last_processed_index |-> c.k - 1, j |-> c.k]
         ELSE InnerLoop_FirstOnly(es, u, j + 1, last_processed_index, pairs)
    ELSE [pairs |-> pairs, last_processed_index |-> last_processed_index,
          j |-> j]

\* Bug variant of InnerLoop: a new pair is put in front of the list
\* (insert(0, pair)) instead of being appended.
RECURSIVE InnerLoop_Prepend(_, _, _, _, _)
InnerLoop_Prepend(es, u, j, last_processed_index, pairs) ==
    IF j < Len(es)
    THEN LET next_entry == es[j + 1] IN
         IF next_entry.type = "user" /\ ~next_entry.toolUseResult
         THEN [pairs |-> pairs, last_processed_index |-> last_processed_index,
               j |-> j]
         ELSE IF next_entry.type = "assistant"
         THEN LET c == CollectToolResults(es, j + 1, <<>>)
                  pair == [user_message |-> u,
                           assistant_response |-> j,
                           tool_results |-> c.tool_results]
              IN InnerLoop_Prepend(es, u, c.k, c.k - 1, <<pair>> \o pairs)
         ELSE InnerLoop_Prepend(es, u, j + 1, last_processed_index, pairs)
    ELSE [pairs |-> pairs, last_processed_index |-> last_processed_index,
          j |-> j]

\* The while over j: every assistant response up to the next user message
\* opens a pair for the user message at index u.
RECURSIVE InnerLoop(_, _, _, _, _)
InnerLoop(es, u, j, last_processed_index, pairs) ==
    IF j < Len(es)
    THEN LET next_entry == es[j + 1] IN
         IF next_entry.type = "user" /\ ~next_entry.toolUseResult
         THEN [pairs |-> pairs, last_processed_index |-> last_processed_index,
               j |-> j]
         ELSE IF next_entry.type = "assistant"
         THEN LET c == CollectToolResults(es, j + 1, <<>>)
                  pair == [user_message |-> u,
                           assistant_response |-> j,
                           tool_results |-> c.tool_results]
              IN InnerLoop(es, u, c.k, c.k - 1, Append(pairs, pair))
         ELSE InnerLoop(es, u, j + 1, last_processed_index, pairs)
    ELSE [pairs |-> pairs, last_processed_index |-> last_processed_index,
          j |-> j]

\* Bug variant of ResumeIndex: the cursor resumes after the entry the inner
\* loop stopped at, so the user message that ended the turn is stepped over.
ResumeIndex_FromJ(r) == r.j + 1

\* Bug variant of ResumeIndex: the "+ 1" is missing, so after a turn without
\* a pair the cursor stays on the turn's user message.
ResumeIndex_NoAdvance(r) == r.last_processed_index

\* "Skip to the next unprocessed entry": the cursor after a turn.
ResumeIndex(r) == r.last_processed_index + 1

\* Bug variant of OuterIteration: the 'toolUseResult' test is forgotten, a
\* tool-result carrier opens a turn like a user message.
OuterIteration_AnyUser(es, c, pairs) ==
    LET entry == es[c + 1] IN
    IF entry.type = "user"
    THEN LET r == InnerLoop(es, c, c + 1, c, pairs)
         IN [i |-> ResumeIndex(r), pairs |-> r.pairs]
    ELSE [i |-> c + 1, pairs |-> pairs]

\* One iteration of the outer while at cursor c.
OuterIteration(es, c, pairs) ==
    LET entry == es[c + 1] IN
    IF entry.type = "user" /\ ~entry.toolUseResult
    THEN LET r == InnerLoop(es, c, c + 1, c, pairs)
         IN [i |-> ResumeIndex(r), pairs |-> r.pairs]
    ELSE [i |-> c + 1, pairs |-> pairs]

\* The whole method, from cursor c on.
RECURSIVE BuildConversationPairs(_, _, _)
BuildConversationPairs(es, c, pairs) ==
    IF c < Len(es)
    THEN LET o == OuterIteration(es, c, pairs)
         IN BuildConversationPairs(es, o.i, o.pairs)
    ELSE pairs

\* An iteration of the outer while on a user message: a turn.
TurnIteration ==
    /\ pc = "build"
    /\ i < Len(entries)
    /\ entries[i + 1].type = "user" /\ ~entries[i + 1].toolUseResult
    /\ LET o == OuterIteration(entries, i, conversation_pairs) IN
         /\ i' = o.i
         /\ conversation_pairs' = o.pairs
    /\ UNCHANGED diffVars
    /\ UNCHANGED extraVars
    /\ UNCHANGED <<log, lineNo, stderr, entries, pc, tool, tool_results, fidx, ret>>

\* An iteration of the outer while on any other entry.
SkipIteration ==
    /\ pc = "build"
    /\ i < Len(entries)
    /\ ~(entries[i + 1].type = "user" /\ ~entries[i + 1].toolUseResult)
    /\ LET o == OuterIteration(entries, i, conversation_pairs) IN
         /\ i' = o.i
         /\ conversation_pairs' = o.pairs
    /\ UNCHANGED diffVars
    /\ UNCHANGED extraVars
    /\ UNCHANGED <<log, lineNo, stderr, entries, pc, tool, tool_results, fidx, ret>>

\* The outer while ends; the method returns.
BuildReturn ==
    /\ pc = "build"
    /\ ~(i < Len(entries))
    /\ pc' = "done"
    /\ UNCHANGED diffVars
    /\ UNCHANGED extraVars
    /\ UNCHANGED <<log, lineNo, stderr, entries, conversation_pairs, i,
                   tool, tool_results, fidx, ret>>

\* No tool lookup is in progress.
NoTool == [has_id |-> FALSE, id |-> ""]

NoRet == [kind |-> "pending", index |-> 0]

\* No ToolUse is being rendered.
ToolUseIdle ==
    /\ tool_name = ""
    /\ resp_lines = <<>>

\* Python's None where a reference to an entry is expected.
NoMessage == -1

\* format_entries is not running.
FormatEntriesIdle ==
    /\ last_user_message = NoMessage
    /\ output = <<>>

NoChoice == [kind |-> "pending", index |-> 0]

\* No menu is shown.
MenuIdle ==
    /\ items = <<>>
    /\ selected = 0
    /\ window_start = 0
    /\ window_end = 0
    /\ key = ""
    /\ choice = NoChoice

NoArgs ==
    [menu |-> FALSE, no_color |-> FALSE, force_color |-> FALSE,
     output |-> FALSE, theme |-> "default"]

\* InteractiveSession.__init__: self.settings (base_dir left out).
NewSettings ==
    [theme |-> "default", output_file |-> FALSE, no_color |-> FALSE,
     force_color |-> FALSE, use_less |-> FALSE]

\* No interactive session has been started.
SessionIdle ==
    /\ args = NoArgs
    /\ settings = NewSettings

ViewIdle ==
    /\ FormatEntriesIdle
    /\ MenuIdle
    /\ SessionIdle

\* None of the other methods is running.
ExtraIdle ==
    /\ ToolUseIdle
    /\ calls = 0
    /\ ViewIdle

\* No edit is being rendered.
DiffIdle ==
    /\ ExtraIdle
    /\ old_string = <<>>
    /\ new_string = <<>>
    /\ diff_lines = <<>>
    /\ patches = <<>>
    /\ hunkNo = 0
    /\ line_idx = 0
    /\ line_num = 0
    /\ old_line_num = 0
    /\ new_line_num = 0
    /\ additions = 0
    /\ deletions = 0
    /\ output_lines = <<>>

\* _build_conversation_pairs entered on a formatter whose entries are any
\* sequence of parsed records and whose conversation_pairs is still empty.
Init ==
    /\ entries \in SeqUpTo(Entries, MaxEntries)
    /\ conversation_pairs = <<>>
    /\ i = 0
    /\ pc = "build"
    /\ log = <<>>
    /\ lineNo = 0
    /\ stderr = 0
    /\ tool = NoTool
    /\ tool_results = <<>>
    /\ fidx = 0
    /\ ret = NoRet
    /\ DiffIdle

Next == TurnIteration \/ SkipIteration \/ BuildReturn

Spec == Init /\ [][Next]_vars

\* The method runs to its end: it is straight-line sequential code, so a loop
\* iteration that can be taken is taken.
SpecFair == Spec /\ WF_vars(Next)

----------------------------------------------------------------------------
(* parse                                                                   *)

\* A line of the history file, reduced to what parse reads of it:
\*   blank      line.strip() is empty
\*   badjson    json.loads raises JSONDecodeError
\*   nonobject  json.loads returns a value that is no dict (number, string,
\*              list, null)
\*   object     json.loads returns a dict, with its 'type' and whether it
\*              has a 'toolUseResult' key
BlankLine == [kind |-> "blank", type |-> None, toolUseResult |-> FALSE]

BadJsonLine == [kind |-> "badjson", type |-> None, toolUseResult |-> FALSE]

NonObjectLine == [kind |-> "nonobject", type |-> None, toolUseResult |-> FALSE]

ObjectLine(t, r) == [kind |-> "object", type |-> t, toolUseResult |-> r]

LogLines ==
    {BlankLine, BadJsonLine, NonObjectLine,
     ObjectLine("user", FALSE), ObjectLine("user", TRUE),
     ObjectLine("assistant", FALSE), ObjectLine("system", FALSE),
     ObjectLine("summary", FALSE)}

\* The state of parse: what it has appended and printed, and whether an
\* exception left it.
ParseStart == [entries |-> <<>>, stderr |-> 0, raised |-> FALSE]

\* The body of `for line in f` on one line.  Only JSONDecodeError is caught:
\* entry.get on a value that is no dict raises AttributeError out of parse.
ParseLine(st, line) ==
    IF line.kind = "blank" THEN st
    ELSE IF line.kind = "badjson"
    THEN [st EXCEPT !.stderr = st.stderr + 1]
    ELSE IF line.kind = "nonobject"
    THEN [st EXCEPT !.raised = TRUE]
    ELSE IF line.type \notin {"summary"}
    THEN [st EXCEPT !.entries = Append(st.entries,
              [type |-> line.type, toolUseResult |-> line.toolUseResult])]
    ELSE st

\* The for-loop of parse over the lines from position n on.
RECURSIVE ParseLines(_, _, _)
ParseLines(lines, n, st) ==
    IF n < Len(lines) /\ ~st.raised
    THEN ParseLines(lines, n + 1, ParseLine(st, lines[n + 1]))
    ELSE st

\* parse() on a new formatter: the for-loop, then _build_conversation_pairs
\* unless an exception left the loop.
Parse(lines) ==
    LET st == ParseLines(lines, 0, ParseStart)
    IN [entries |-> st.entries,
        stderr |-> st.stderr,
        raised |-> st.raised,
        conversation_pairs |->
            IF st.raised THEN <<>>
            ELSE BuildConversationPairs(st.entries, 0, <<>>)]

\* parse reads the next line of the file.
ReadLine ==
    /\ pc = "parse"
    /\ lineNo < Len(log)
    /\ LET st == ParseLine([entries |-> entries, stderr |-> stderr,
                            raised |-> FALSE], log[lineNo + 1])
       IN /\ entries' = st.entries
          /\ stderr' = st.stderr
          /\ pc' = IF st.raised THEN "raised" ELSE "parse"
    /\ lineNo' = lineNo + 1
    /\ UNCHANGED diffVars
    /\ UNCHANGED extraVars
    /\ UNCHANGED <<log, conversation_pairs, i, tool, tool_results, fidx, ret>>

\* The file is exhausted: parse calls _build_conversation_pairs.
ReadEof ==
    /\ pc = "parse"
    /\ ~(lineNo < Len(log))
    /\ pc' = "build"
    /\ i' = 0
    /\ UNCHANGED diffVars
    /\ UNCHANGED extraVars
    /\ UNCHANGED <<log, lineNo, stderr, entries, conversation_pairs,
                   tool, tool_results, fidx, ret>>

\* A new formatter on a history file of any lines; parse is called.
InitParse ==
    /\ log \in SeqUpTo(LogLines, MaxLog)
    /\ lineNo = 0
    /\ stderr = 0
    /\ entries = <<>>
    /\ conversation_pairs = <<>>
    /\ i = 0
    /\ pc = "parse"
    /\ tool = NoTool
    /\ tool_results = <<>>
    /\ fidx = 0
    /\ ret = NoRet
    /\ DiffIdle

NextParse ==
    ReadLine \/ ReadEof \/ TurnIteration \/ SkipIteration \/ BuildReturn

SpecParse == InitParse /\ [][NextParse]_vars

----------------------------------------------------------------------------
(* parse and _build_conversation_pairs called again on the same formatter  *)

MaxCalls == 1

\* parse() is called again: the file is opened and read from its first
\* line; self.entries and self.conversation_pairs are what the formatter holds.
ParseAgain ==
    /\ pc = "done"
    /\ calls < MaxCalls
    /\ calls' = calls + 1
    /\ lineNo' = 0
    /\ pc' = "parse"
    /\ UNCHANGED diffVars
    /\ UNCHANGED <<tool_name, resp_lines>>
    /\ UNCHANGED viewVars
    /\ UNCHANGED <<log, stderr, entries, conversation_pairs, i,
                   tool, tool_results, fidx, ret>>

\* _build_conversation_pairs() is called again: i = 0.
BuildAgain ==
    /\ pc = "done"
    /\ calls < MaxCalls
    /\ calls' = calls + 1
    /\ i' = 0
    /\ pc' = "build"
    /\ UNCHANGED diffVars
    /\ UNCHANGED <<tool_name, resp_lines>>
    /\ UNCHANGED viewVars
    /\ UNCHANGED <<log, lineNo, stderr, entries, conversation_pairs,
                   tool, tool_results, fidx, ret>>

NextAgain == NextParse \/ ParseAgain \/ BuildAgain

SpecAgain == InitParse /\ [][NextAgain]_vars

----------------------------------------------------------------------------
(* _find_tool_result                                                       *)

\* A ToolUse, reduced to its 'id': absent, the empty string, or an id.
ToolIds == {"t1", "t2"}

Tools ==
    {NoTool, [has_id |-> TRUE, id |-> ""]}
        \cup {[has_id |-> TRUE, id |-> t] : t \in ToolIds}

\* An element of tool_results, reduced to what the lookup reads of it:
\*   message  "absent" (no 'message' key) or "dict"
\*   content  "absent" (no 'content' key), "text" (a string) or "list"
\*   items    the items of a content list, each reduced to its
\*            'tool_use_id' (None when the item has no such key)
ResultShape(m, c, it) == [message |-> m, content |-> c, items |-> it]

Item(x) == [tool_use_id |-> x]

ToolResults ==
    {ResultShape("absent", "absent", <<>>),
     ResultShape("dict", "absent", <<>>),
     ResultShape("dict", "text", <<>>),
     ResultShape("dict", "list", <<>>),
     ResultShape("dict", "list", <<Item(None)>>),
     ResultShape("dict", "list", <<Item(None), Item("t1")>>)}
        \cup {ResultShape("dict", "list", <<Item(t)>>) : t \in ToolIds}

\* result.get('message', {}).get('content', [{}])[0].get('tool_use_id'):
\* the value read, or the exception raised (AttributeError on a string
\* content, IndexError on an empty list or empty string).
ToolUseIdOf(result) ==
    IF result.message = "absent" \/ result.content = "absent"
    THEN [raised |-> FALSE, value |-> None]
    ELSE IF result.content = "text" THEN [raised |-> TRUE, value |-> None]
    ELSE IF Len(result.items) = 0 THEN [raised |-> TRUE, value |-> None]
    ELSE [raised |-> FALSE, value |-> result.items[1].tool_use_id]

\* tool_id = tool.get('id'); if not tool_id: return None
FindEnter ==
    /\ pc = "find_call"
    /\ IF ~tool.has_id \/ tool.id = ""
       THEN /\ ret' = [kind |-> "None", index |-> 0]
            /\ pc' = "find_done"
       ELSE /\ ret' = ret
            /\ pc' = "find_loop"
    /\ UNCHANGED diffVars
    /\ UNCHANGED extraVars
    /\ UNCHANGED <<log, lineNo, stderr, entries, conversation_pairs, i,
                   tool, tool_results, fidx>>

\* One iteration of `for result in tool_results`.
FindIterate ==
    /\ pc = "find_loop"
    /\ fidx < Len(tool_results)
    /\ LET r == ToolUseIdOf(tool_results[fidx + 1]) IN
       IF r.raised
       THEN /\ ret' = [kind |-> "raised", index |-> fidx]
            /\ pc' = "find_done"
            /\ fidx' = fidx
       ELSE IF r.value = tool.id
       THEN /\ ret' = [kind |-> "result", index |-> fidx]
            /\ pc' = "find_done"
            /\ fidx' = fidx
       ELSE /\ ret' = ret
            /\ pc' = pc
            /\ fidx' = fidx + 1
    /\ UNCHANGED diffVars
    /\ UNCHANGED extraVars
    /\ UNCHANGED <<log, lineNo, stderr, entries, conversation_pairs, i,
                   tool, tool_results>>

\* The for-loop ends without a match: return None.
FindExhausted ==
    /\ pc = "find_loop"
    /\ ~(fidx < Len(tool_results))
    /\ ret' = [kind |-> "None", index |-> 0]
    /\ pc' = "find_done"
    /\ UNCHANGED diffVars
    /\ UNCHANGED extraVars
    /\ UNCHANGED <<log, lineNo, stderr, entries, conversation_pairs, i,
                   tool, tool_results, fidx>>

\* _find_tool_result called with any ToolUse and any list of results.
InitFind ==
    /\ tool \in Tools
    /\ tool_results \in SeqUpTo(ToolResults, MaxResults)
    /\ fidx = 0
    /\ ret = NoRet
    /\ DiffIdle
    /\ pc = "find_call"
    /\ log = <<>>
    /\ lineNo = 0
    /\ stderr = 0
    /\ entries = <<>>
    /\ conversation_pairs = <<>>
    /\ i = 0

NextFind == FindEnter \/ FindIterate \/ FindExhausted

SpecFind == InitFind /\ [][NextFind]_vars

----------------------------------------------------------------------------
(* difflib, as the formatter calls it                                      *)
(*                                                                         *)
(* A Python string is modelled by the sequence of its characters, a list   *)
(* of lines by a sequence of such sequences.  SequenceMatcher is called    *)
(* with isjunk None; its autojunk heuristic only acts on sequences of 200  *)
(* elements or more, which lie beyond the bounds of this model.            *)

Max(x, y) == IF x >= y THEN x ELSE y

Min(x, y) == IF x <= y THEN x ELSE y

\* a[lo:hi] of Python, for 0 <= lo <= hi <= len(a).
Slice(a, lo, hi) == SubSeq(a, lo + 1, hi)

\* True when the string s starts with the string p.
StartsWith(s, p) == Len(s) >= Len(p) /\ SubSeq(s, 1, Len(p)) = p

\* Length of the longest common run of a and b that starts at a[x], b[y]
\* and stays inside a[:ahi], b[:bhi].
RECURSIVE CommonRun(_, _, _, _, _, _)
CommonRun(a, b, x, y, ahi, bhi) ==
    IF x < ahi /\ y < bhi /\ a[x + 1] = b[y + 1]
    THEN 1 + CommonRun(a, b, x + 1, y + 1, ahi, bhi)
    ELSE 0

\* SequenceMatcher.find_longest_match(alo, ahi, blo, bhi): the longest block
\* a[x:x+size] = b[y:y+size] inside the two ranges; of the longest blocks the
\* one that starts earliest in a, and of those the one that starts earliest
\* in b; (alo, blo, 0) when the ranges share no element.
FindLongestMatch(a, b, alo, ahi, blo, bhi) ==
    LET cand == (alo..(ahi - 1)) \X (blo..(bhi - 1))
        run(p) == CommonRun(a, b, p[1], p[2], ahi, bhi)
        sizes == {run(p) : p \in cand}
        bestsize == IF sizes = {} THEN 0
                    ELSE CHOOSE k \in sizes : \A m \in sizes : m <= k
    IN IF bestsize = 0 THEN [a |-> alo, b |-> blo, size |-> 0]
       ELSE LET top == {p \in cand : run(p) = bestsize}
                besti == CHOOSE x \in {p[1] : p \in top} :
                             \A p \in top : x <= p[1]
                bestj == CHOOSE y \in {p[2] : p \in {q \in top : q[1] = besti}} :
                             \A p \in {q \in top : q[1] = besti} : y <= p[2]
            IN [a |-> besti, b |-> bestj, size |-> bestsize]

\* The blocks get_matching_blocks finds in a[alo:ahi], b[blo:bhi], sorted:
\* the longest match, and recursively the blocks to its left and right.
RECURSIVE BlocksIn(_, _, _, _, _, _)
BlocksIn(a, b, alo, ahi, blo, bhi) ==
    LET x == FindLongestMatch(a, b, alo, ahi, blo, bhi) IN
    IF x.size = 0 THEN <<>>
    ELSE (IF alo < x.a /\ blo < x.b
          THEN BlocksIn(a, b, alo, x.a, blo, x.b) ELSE <<>>)
         \o <<x>>
         \o (IF x.a + x.size < ahi /\ x.b + x.size < bhi
             THEN BlocksIn(a, b, x.a + x.size, ahi, x.b + x.size, bhi)
             ELSE <<>>)

\* The loop of get_matching_blocks that collapses adjacent blocks; cur is
\* the block (i1, j1, k1) the next block is compared against.
RECURSIVE CollapseAdjacent(_, _, _, _)
CollapseAdjacent(blocks, n, cur, non_adjacent) ==
    IF n <= Len(blocks)
    THEN LET nxt == blocks[n] IN
         IF cur.a + cur.size = nxt.a /\ cur.b + cur.size = nxt.b
         THEN CollapseAdjacent(blocks, n + 1,
                  [cur EXCEPT !.size = cur.size + nxt.size], non_adjacent)
         ELSE CollapseAdjacent(blocks, n + 1, nxt,
                  IF cur.size # 0 THEN Append(non_adjacent, cur)
                  ELSE non_adjacent)
    ELSE IF cur.size # 0 THEN Append(non_adjacent, cur) ELSE non_adjacent

\* SequenceMatcher(None, a, b).get_matching_blocks(), with its sentinel.
MatchingBlocks(a, b) ==
    Append(CollapseAdjacent(BlocksIn(a, b, 0, Len(a), 0, Len(b)), 1,
                            [a |-> 0, b |-> 0, size |-> 0], <<>>),
           [a |-> Len(a), b |-> Len(b), size |-> 0])

Opcode(tag, i1, i2, j1, j2) ==
    [tag |-> tag, i1 |-> i1, i2 |-> i2, j1 |-> j1, j2 |-> j2]

\* The loop of get_opcodes over the matching blocks, from block n on, with
\* a[:x] and b[:y] already explained.
RECURSIVE OpcodesFrom(_, _, _, _, _)
OpcodesFrom(blocks, n, x, y, answer) ==
    IF n <= Len(blocks)
    THEN LET blk == blocks[n]
             tag == IF x < blk.a /\ y < blk.b THEN "replace"
                    ELSE IF x < blk.a THEN "delete"
                    ELSE IF y < blk.b THEN "insert"
                    ELSE ""
             withTag == IF tag # ""
                        THEN Append(answer, Opcode(tag, x, blk.a, y, blk.b))
                        ELSE answer
             withEqual == IF blk.size # 0
                          THEN Append(withTag,
                                   Opcode("equal", blk.a, blk.a + blk.size,
                                          blk.b, blk.b + blk.size))
                          ELSE withTag
         IN OpcodesFrom(blocks, n + 1, blk.a + blk.size, blk.b + blk.size,
                        withEqual)
    ELSE answer

\* Variant: no matching block is looked for; the whole of a is replaced by
\* the whole of b.
GetOpcodes_WholeReplace(a, b) ==
    IF a = <<>> /\ b = <<>> THEN <<>>
    ELSE <<Opcode("replace", 0, Len(a), 0, Len(b))>>

\* SequenceMatcher(None, a, b).get_opcodes().
GetOpcodes(a, b) == OpcodesFrom(MatchingBlocks(a, b), 1, 0, 0, <<>>)

\* Variant: the last group is yielded even when it is a single equal run.
RECURSIVE GroupsFrom_KeepEqual(_, _, _, _, _)
GroupsFrom_KeepEqual(codes, m, n, group, groups) ==
    IF m <= Len(codes)
    THEN LET c == codes[m] IN
         IF c.tag = "equal" /\ c.i2 - c.i1 > n + n
         THEN GroupsFrom_KeepEqual(codes, m + 1, n,
                  <<Opcode(c.tag, Max(c.i1, c.i2 - n), c.i2,
                           Max(c.j1, c.j2 - n), c.j2)>>,
                  Append(groups,
                         Append(group,
                                Opcode(c.tag, c.i1, Min(c.i2, c.i1 + n),
                                       c.j1, Min(c.j2, c.j1 + n)))))
         ELSE GroupsFrom_KeepEqual(codes, m + 1, n, Append(group, c), groups)
    ELSE IF group # <<>> THEN Append(groups, group) ELSE groups

\* The loop of get_grouped_opcodes over codes, from code m on.
RECURSIVE GroupsFrom(_, _, _, _, _)
GroupsFrom(codes, m, n, group, groups) ==
    IF m <= Len(codes)
    THEN LET c == codes[m] IN
         IF c.tag = "equal" /\ c.i2 - c.i1 > n + n
         THEN GroupsFrom(codes, m + 1, n,
                  <<Opcode(c.tag, Max(c.i1, c.i2 - n), c.i2,
                           Max(c.j1, c.j2 - n), c.j2)>>,
                  Append(groups,
                         Append(group,
                                Opcode(c.tag, c.i1, Min(c.i2, c.i1 + n),
                                       c.j1, Min(c.j2, c.j1 + n)))))
         ELSE GroupsFrom(codes, m + 1, n, Append(group, c), groups)
    ELSE IF group # <<>> /\ ~(Len(group) = 1 /\ group[1].tag = "equal")
         THEN Append(groups, group)
         ELSE groups

\* `if not codes: codes = [("equal", 0, 1, 0, 1)]`.
NonEmptyCodes(codes) ==
    IF codes = <<>> THEN <<Opcode("equal", 0, 1, 0, 1)>> ELSE codes

\* A leading equal run is cut down to its last n elements.
TrimFirst(codes, n) ==
    LET f == codes[1] IN
    IF f.tag = "equal"
    THEN [codes EXCEPT ![1] = Opcode(f.tag, Max(f.i1, f.i2 - n), f.i2,
                                     Max(f.j1, f.j2 - n), f.j2)]
    ELSE codes

\* A trailing equal run is cut down to its first n elements.
TrimLast(codes, n) ==
    LET l == codes[Len(codes)] IN
    IF l.tag = "equal"
    THEN [codes EXCEPT ![Len(codes)] =
             Opcode(l.tag, l.i1, Min(l.i2, l.i1 + n),
                    l.j1, Min(l.j2, l.j1 + n))]
    ELSE codes

\* SequenceMatcher(None, a, b).get_grouped_opcodes(n).
GetGroupedOpcodes(a, b, n) ==
    GroupsFrom(TrimLast(TrimFirst(NonEmptyCodes(GetOpcodes(a, b)), n), n),
               1, n, <<>>, <<>>)

DigitChars == <<"0", "1", "2", "3", "4", "5", "6", "7", "8", "9">>

\* '{}'.format(n) for an integer n >= 0.
RECURSIVE ToDecimal(_)
ToDecimal(n) ==
    IF n < 10 THEN <<DigitChars[n + 1]>>
    ELSE ToDecimal(n \div 10) \o <<DigitChars[(n % 10) + 1]>>

\* difflib._format_range_unified(start, stop).
FormatRangeUnified(start, stop) ==
    LET length == stop - start IN
    IF length = 1 THEN ToDecimal(start + 1)
    ELSE ToDecimal(IF length = 0 THEN start ELSE start + 1)
             \o <<",">> \o ToDecimal(length)

\* '@@ -{} +{} @@' for a group of opcodes.
HunkHeader(group) ==
    <<"@", "@", " ", "-">>
        \o FormatRangeUnified(group[1].i1, group[Len(group)].i2)
        \o <<" ", "+">>
        \o FormatRangeUnified(group[1].j1, group[Len(group)].j2)
        \o <<" ", "@", "@">>

\* The lines unified_diff yields for one opcode.
OpcodeLines(a, b, c) ==
    IF c.tag = "equal"
    THEN [m \in 1..(c.i2 - c.i1) |-> <<" ">> \o a[c.i1 + m]]
    ELSE (IF c.tag \in {"replace", "delete"}
          THEN [m \in 1..(c.i2 - c.i1) |-> <<"-">> \o a[c.i1 + m]]
          ELSE <<>>)
         \o (IF c.tag \in {"replace", "insert"}
             THEN [m \in 1..(c.j2 - c.j1) |-> <<"+">> \o b[c.j1 + m]]
             ELSE <<>>)

RECURSIVE GroupLines(_, _, _, _)
GroupLines(a, b, group, m) ==
    IF m <= Len(group)
    THEN OpcodeLines(a, b, group[m]) \o GroupLines(a, b, group, m + 1)
    ELSE <<>>

RECURSIVE HunksFrom(_, _, _, _)
HunksFrom(a, b, groups, g) ==
    IF g <= Len(groups)
    THEN <<HunkHeader(groups[g])>> \o GroupLines(a, b, groups[g], 1)
             \o HunksFrom(a, b, groups, g + 1)
    ELSE <<>>

\* list(difflib.unified_diff(a, b, fromfile='old', tofile='new',
\*                           lineterm='', n=n)).
UnifiedDiff(a, b, n) ==
    LET groups == GetGroupedOpcodes(a, b, n) IN
    IF groups = <<>> THEN <<>>
    ELSE << <<"-", "-", "-", " ", "o", "l", "d">>,
            <<"+", "+", "+", " ", "n", "e", "w">> >>
             \o HunksFrom(a, b, groups, 1)

----------------------------------------------------------------------------
(* _format_diff_line_with_inline_highlight                                 *)

\* The colour markers of class Colors, as tokens of the formatted text (a
\* character is a string of length one, so no marker equals a character).
BG_RED == "<BG_RED>"

BG_GREEN == "<BG_GREEN>"

BG_BRIGHT_RED == "<BG_BRIGHT_RED>"

BG_BRIGHT_GREEN == "<BG_BRIGHT_GREEN>"

RESET == "<RESET>"

BLUE == "<BLUE>"

\* Bug variant of HighlightOld: 'replace' is missing from the list of
\* highlighted tags, so the old text of a replaced range is not emitted.
RECURSIVE HighlightOld_DeleteOnly(_, _, _)
HighlightOld_DeleteOnly(old_content, codes, n) ==
    IF n <= Len(codes)
    THEN LET c == codes[n] IN
         (IF c.tag = "equal" THEN Slice(old_content, c.i1, c.i2)
          ELSE IF c.tag \in {"delete"}
          THEN <<BG_BRIGHT_RED>> \o Slice(old_content, c.i1, c.i2)
                   \o <<RESET, BG_RED>>
          ELSE <<>>)
         \o HighlightOld_DeleteOnly(old_content, codes, n + 1)
    ELSE <<>>

\* The loop that builds the highlighted old line from the opcodes.
RECURSIVE HighlightOld(_, _, _)
HighlightOld(old_content, codes, n) ==
    IF n <= Len(codes)
    THEN LET c == codes[n] IN
         (IF c.tag = "equal" THEN Slice(old_content, c.i1, c.i2)
          ELSE IF c.tag \in {"delete", "replace"}
          THEN <<BG_BRIGHT_RED>> \o Slice(old_content, c.i1, c.i2)
                   \o <<RESET, BG_RED>>
          ELSE <<>>)
         \o HighlightOld(old_content, codes, n + 1)
    ELSE <<>>

\* The loop that builds the highlighted new line from the opcodes.
RECURSIVE HighlightNew(_, _, _)
HighlightNew(new_content, codes, n) ==
    IF n <= Len(codes)
    THEN LET c == codes[n] IN
         (IF c.tag = "equal" THEN Slice(new_content, c.j1, c.j2)
          ELSE IF c.tag \in {"insert", "replace"}
          THEN <<BG_BRIGHT_GREEN>> \o Slice(new_content, c.j1, c.j2)
                   \o <<RESET, BG_GREEN>>
          ELSE <<>>)
         \o HighlightNew(new_content, codes, n + 1)
    ELSE <<>>

\* Variant: a '-' line is highlighted against whatever line follows it.
FormatDiffLine_PairsWithAny(line, all_lines, idx) ==
    IF line = <<>> THEN [branch |-> "empty", text |-> line]
    ELSE IF /\ StartsWith(line, <<"-">>)
            /\ idx + 1 < Len(all_lines)
            /\ all_lines[idx + 2] # <<>>
    THEN LET old_content == Slice(line, 1, Len(line))
             new_content == Slice(all_lines[idx + 2], 1, Len(all_lines[idx + 2]))
         IN [branch |-> "pair_delete",
             text |-> <<BG_RED, "-">>
                 \o HighlightOld(old_content,
                                 GetOpcodes(old_content, new_content), 1)
                 \o <<RESET>>]
    ELSE IF /\ StartsWith(line, <<"+">>)
            /\ idx > 0
            /\ StartsWith(all_lines[idx], <<"-">>)
    THEN LET old_content == Slice(all_lines[idx], 1, Len(all_lines[idx]))
             new_content == Slice(line, 1, Len(line))
         IN [branch |-> "pair_add",
             text |-> <<BG_GREEN, "+">>
                 \o HighlightNew(new_content,
                                 GetOpcodes(old_content, new_content), 1)
                 \o <<RESET>>]
    ELSE IF StartsWith(line, <<"-">>)
    THEN [branch |-> "solid_delete", text |-> <<BG_RED>> \o line \o <<RESET>>]
    ELSE IF StartsWith(line, <<"+">>)
    THEN [branch |-> "solid_add", text |-> <<BG_GREEN>> \o line \o <<RESET>>]
    ELSE [branch |-> "context", text |-> line]

\* Variant: a '-' line that stands alone is written in the bright colour.
FormatDiffLine_BrightWhenAlone(line, all_lines, idx) ==
    IF line = <<>> THEN [branch |-> "empty", text |-> line]
    ELSE IF /\ StartsWith(line, <<"-">>)
            /\ idx + 1 < Len(all_lines)
            /\ StartsWith(all_lines[idx + 2], <<"+">>)
    THEN LET old_content == Slice(line, 1, Len(line))
             new_content == Slice(all_lines[idx + 2], 1, Len(all_lines[idx + 2]))
         IN [branch |-> "pair_delete",
             text |-> <<BG_RED, "-">>
                 \o HighlightOld(old_content,
                                 GetOpcodes(old_content, new_content), 1)
                 \o <<RESET>>]
    ELSE IF /\ StartsWith(line, <<"+">>)
            /\ idx > 0
            /\ StartsWith(all_lines[idx], <<"-">>)
    THEN LET old_content == Slice(all_lines[idx], 1, Len(all_lines[idx]))
             new_content == Slice(line, 1, Len(line))
         IN [branch |-> "pair_add",
             text |-> <<BG_GREEN, "+">>
                 \o HighlightNew(new_content,
                                 GetOpcodes(old_content, new_content), 1)
                 \o <<RESET>>]
    ELSE IF StartsWith(line, <<"-">>)
    THEN [branch |-> "solid_delete",
          text |-> <<BG_RED, BG_BRIGHT_RED>> \o line \o <<RESET>>]
    ELSE IF StartsWith(line, <<"+">>)
    THEN [branch |-> "solid_add", text |-> <<BG_GREEN>> \o line \o <<RESET>>]
    ELSE [branch |-> "context", text |-> line]

\* _format_diff_line_with_inline_highlight(line, all_lines, line_idx): the
\* branch taken and the string returned.
FormatDiffLine(line, all_lines, idx) ==
    IF line = <<>> THEN [branch |-> "empty", text |-> line]
    ELSE IF /\ StartsWith(line, <<"-">>)
            /\ idx + 1 < Len(all_lines)
            /\ StartsWith(all_lines[idx + 2], <<"+">>)
    THEN LET old_content == Slice(line, 1, Len(line))
             new_content == Slice(all_lines[idx + 2], 1, Len(all_lines[idx + 2]))
         IN [branch |-> "pair_delete",
             text |-> <<BG_RED, "-">>
                 \o HighlightOld(old_content,
                                 GetOpcodes(old_content, new_content), 1)
                 \o <<RESET>>]
    ELSE IF /\ StartsWith(line, <<"+">>)
            /\ idx > 0
            /\ StartsWith(all_lines[idx], <<"-">>)
    THEN LET old_content == Slice(all_lines[idx], 1, Len(all_lines[idx]))
             new_content == Slice(line, 1, Len(line))
         IN [branch |-> "pair_add",
             text |-> <<BG_GREEN, "+">>
                 \o HighlightNew(new_content,
                                 GetOpcodes(old_content, new_content), 1)
                 \o <<RESET>>]
    ELSE IF StartsWith(line, <<"-">>)
    THEN [branch |-> "solid_delete", text |-> <<BG_RED>> \o line \o <<RESET>>]
    ELSE IF StartsWith(line, <<"+">>)
    THEN [branch |-> "solid_add", text |-> <<BG_GREEN>> \o line \o <<RESET>>]
    ELSE [branch |-> "context", text |-> line]

----------------------------------------------------------------------------
(* _generate_diff_from_tool_input and the rendering of its diff            *)

\* Lines of context of the generated diff (n=3).
ContextLines == 3

\* str.splitlines(keepends=True), for text whose only line break is "\n":
\* cur is the line being read, from character n on.
RECURSIVE SplitLinesFrom(_, _, _, _)
SplitLinesFrom(s, n, cur, acc) ==
    IF n <= Len(s)
    THEN IF s[n] = "\n"
         THEN SplitLinesFrom(s, n + 1, <<>>, Append(acc, Append(cur, s[n])))
         ELSE SplitLinesFrom(s, n + 1, Append(cur, s[n]), acc)
    ELSE IF cur # <<>> THEN Append(acc, cur) ELSE acc

SplitLines(s) == SplitLinesFrom(s, 1, <<>>, <<>>)

\* s.splitlines(keepends=True) if s else [].
LinesOf(s) == IF s # <<>> THEN SplitLines(s) ELSE <<>>

\* Variant: only the '--- old' line is dropped from the diff.
DropFileHeader_KeepNewHeader(d) ==
    IF Len(d) > 2 THEN SubSeq(d, 2, Len(d)) ELSE <<>>

\* diff_lines[2:] if len(diff_lines) > 2 else [].
DropFileHeader(d) ==
    IF Len(d) > 2 THEN SubSeq(d, 3, Len(d)) ELSE <<>>

\* _generate_diff_from_tool_input, on the tool input's old_string and
\* new_string (a missing key reads as the empty string).
GenerateDiffFromToolInput(old, new) ==
    IF old = <<>> /\ new = <<>> THEN <<>>
    ELSE DropFileHeader(UnifiedDiff(LinesOf(old), LinesOf(new), ContextLines))

IsDigit(c) == \E d \in 1..Len(DigitChars) : DigitChars[d] = c

DigitValue(c) == (CHOOSE d \in 1..Len(DigitChars) : DigitChars[d] = c) - 1

\* int(digits) for a non-empty string of decimal digits.
RECURSIVE FromDecimal(_)
FromDecimal(digits) ==
    IF Len(digits) = 1 THEN DigitValue(digits[1])
    ELSE FromDecimal(SubSeq(digits, 1, Len(digits) - 1)) * 10
             + DigitValue(digits[Len(digits)])

\* The end of the run of digits that starts at position n of line.
RECURSIVE DigitsEnd(_, _)
DigitsEnd(line, n) ==
    IF n + 1 <= Len(line) /\ IsDigit(line[n + 1]) THEN DigitsEnd(line, n + 1)
    ELSE n

\* re.search(r'\+(\d+)', line): whether it matches, and int(match.group(1)).
SearchPlusNumber(line) ==
    LET starts == {n \in 1..(Len(line) - 1) :
                       line[n] = "+" /\ IsDigit(line[n + 1])}
    IN IF starts = {} THEN [matched |-> FALSE, value |-> 0]
       ELSE LET n == CHOOSE x \in starts : \A y \in starts : x <= y
            IN [matched |-> TRUE,
                value |-> FromDecimal(SubSeq(line, n + 1, DigitsEnd(line, n + 1)))]

\* sum(1 for line in diff_lines if line.startswith(sign) and not
\* line.startswith(sign * 3)).
CountSigned(lines, sign) ==
    Cardinality({n \in 1..Len(lines) :
        StartsWith(lines[n], <<sign>>) /\ ~StartsWith(lines[n], <<sign, sign, sign>>)})

\* A row appended to output_lines: what it is, the line number printed in
\* front of it (if any) and its text.
Row(kind, numbered, num, text) ==
    [kind |-> kind, numbered |-> numbered, num |-> num, text |-> text]

\* Variant: a hunk header leaves line_num as it is.
RenderRow_NoReseed(line, formatted_line, num) ==
    IF StartsWith(line, <<"@", "@">>)
    THEN [line_num |-> num,
          row |-> Row("hunk", FALSE, 0, <<BLUE>> \o line \o <<RESET>>)]
    ELSE IF StartsWith(line, <<"+">>)
    THEN [line_num |-> num + 1, row |-> Row("add", TRUE, num, formatted_line)]
    ELSE IF StartsWith(line, <<"-">>)
    THEN [line_num |-> num, row |-> Row("delete", FALSE, 0, formatted_line)]
    ELSE [line_num |-> num + 1,
          row |-> Row("context", TRUE, num, Slice(line, 1, Len(line)))]

\* The body of the loop over diff_lines after formatted_line is computed:
\* the new line_num and the row.
RenderRow(line, formatted_line, num) ==
    IF StartsWith(line, <<"@", "@">>)
    THEN [line_num |-> IF SearchPlusNumber(line).matched
                       THEN SearchPlusNumber(line).value ELSE num,
          row |-> Row("hunk", FALSE, 0, <<BLUE>> \o line \o <<RESET>>)]
    ELSE IF StartsWith(line, <<"+">>)
    THEN [line_num |-> num + 1, row |-> Row("add", TRUE, num, formatted_line)]
    ELSE IF StartsWith(line, <<"-">>)
    THEN [line_num |-> num, row |-> Row("delete", FALSE, 0, formatted_line)]
    ELSE [line_num |-> num + 1,
          row |-> Row("context", TRUE, num, Slice(line, 1, Len(line)))]

\* One iteration of the loop over diff_lines.
RenderDiffLine(lines, idx, num) ==
    RenderRow(lines[idx + 1], FormatDiffLine(lines[idx + 1], lines, idx).text,
              num)

\* The diff d of the tool input is rendered if it is not empty: the totals
\* are counted, the 'Modified' header is written and the loop starts with
\* line_num = 1.
StartRendering(d) ==
    /\ diff_lines' = d
    /\ IF d # <<>>
       THEN /\ additions' = CountSigned(d, "+")
            /\ deletions' = CountSigned(d, "-")
            /\ output_lines' = <<Row("modified", FALSE, 0, <<>>)>>
            /\ line_num' = 1
            /\ pc' = "edit_render"
       ELSE /\ UNCHANGED <<additions, deletions, output_lines, line_num>>
            /\ pc' = "edit_done"

\* The row r.row is appended and line_num becomes r.line_num.
AppendRow(r) ==
    /\ line_num' = r.line_num
    /\ output_lines' = Append(output_lines, r.row)

\* The formatter asks for the diff of the tool input and renders it.
GenerateDiff ==
    /\ pc = "edit_call"
    /\ StartRendering(GenerateDiffFromToolInput(old_string, new_string))
    /\ line_idx' = 0
    /\ UNCHANGED <<old_string, new_string, patches, hunkNo, old_line_num,
                   new_line_num>>
    /\ UNCHANGED coreVars

\* One iteration of `for i, line in enumerate(diff_lines)`.
RenderLine ==
    /\ pc = "edit_render"
    /\ line_idx < Len(diff_lines)
    /\ AppendRow(RenderDiffLine(diff_lines, line_idx, line_num))
    /\ line_idx' = line_idx + 1
    /\ UNCHANGED <<old_string, new_string, diff_lines, patches, hunkNo,
                   old_line_num, new_line_num, additions, deletions, pc>>
    /\ UNCHANGED coreVars

\* The loop over diff_lines ends; the rows are joined and returned.
RenderReturn ==
    /\ pc = "edit_render"
    /\ ~(line_idx < Len(diff_lines))
    /\ pc' = "edit_done"
    /\ UNCHANGED diffVars
    /\ UNCHANGED coreVars

\* Characters of the short texts.
TextChars == {"a", "b", "\n"}

MaxText == 3

MaxLongLines == 9

\* The line "<k>\n".
NumberedLine(k) == Append(ToDecimal(k), "\n")

NumberedLines(n) == [k \in 1..n |-> NumberedLine(k)]

\* The line list ls with line p deleted ("d"), replaced by "x\n" ("r"), or
\* with "x\n" inserted before it ("i").
EditLine(ls, p, kind) ==
    IF kind = "d" THEN SubSeq(ls, 1, p - 1) \o SubSeq(ls, p + 1, Len(ls))
    ELSE IF kind = "r" THEN [ls EXCEPT ![p] = <<"x", "\n">>]
    ELSE SubSeq(ls, 1, p - 1) \o << <<"x", "\n">> >> \o SubSeq(ls, p, Len(ls))

EditKinds == {"d", "r", "i"}

\* ls after at most two edits of single lines.
EditedLines(ls) ==
    {ls}
        \cup {EditLine(ls, p, k) : p \in 1..Len(ls), k \in EditKinds}
        \cup {EditLine(EditLine(ls, pq[2], kk[2]), pq[1], kk[1]) :
                 pq \in {x \in (1..Len(ls)) \X (1..Len(ls)) : x[1] < x[2]},
                 kk \in EditKinds \X EditKinds}

\* ''.join(ls).
RECURSIVE Join(_)
Join(ls) == IF ls = <<>> THEN <<>> ELSE Head(ls) \o Join(Tail(ls))

\* The tool inputs explored: every pair of short texts, and every text of
\* numbered lines against itself after at most two single-line edits (long
\* enough for a diff of several hunks), against the empty text and the empty
\* text against it, and the empty text against "a\nb\n".
EditInputs ==
    [old : SeqUpTo(TextChars, MaxText), new : SeqUpTo(TextChars, MaxText)]
        \cup UNION {{[old |-> Join(NumberedLines(n)), new |-> Join(e)] :
                        e \in EditedLines(NumberedLines(n))} :
                    n \in 0..MaxLongLines}
        \cup {[old |-> <<>>, new |-> Join(NumberedLines(n))] :
                 n \in 0..MaxLongLines}
        \cup {[old |-> Join(NumberedLines(n)), new |-> <<>>] :
                 n \in 0..MaxLongLines}
        \cup {[old |-> <<>>, new |-> <<"a", "\n", "b", "\n">>]}

\* No conversation is being parsed, assembled or searched.
CoreIdle ==
    /\ log = <<>>
    /\ lineNo = 0
    /\ stderr = 0
    /\ entries = <<>>
    /\ conversation_pairs = <<>>
    /\ i = 0
    /\ tool = NoTool
    /\ tool_results = <<>>
    /\ fidx = 0
    /\ ret = NoRet
    /\ ExtraIdle

\* An Edit ToolUse without structured patch is about to be rendered.
InitEdit ==
    /\ \E inp \in EditInputs : old_string = inp.old /\ new_string = inp.new
    /\ diff_lines = <<>>
    /\ patches = <<>>
    /\ hunkNo = 0
    /\ line_idx = 0
    /\ line_num = 0
    /\ old_line_num = 0
    /\ new_line_num = 0
    /\ additions = 0
    /\ deletions = 0
    /\ output_lines = <<>>
    /\ pc = "edit_call"
    /\ CoreIdle

NextEdit == GenerateDiff \/ RenderLine \/ RenderReturn

SpecEdit == InitEdit /\ [][NextEdit]_vars

----------------------------------------------------------------------------
(* _format_tool_result, Edit/MultiEdit with a structuredPatch              *)

\* A hunk record of result['structuredPatch']. has_additions and
\* has_deletions say whether the record has the keys 'additions' and
\* 'deletions'; oldStart and newStart are 0 when the keys are missing.
Hunk(oldStart, newStart, lines, counts) ==
    [oldStart |-> oldStart, newStart |-> newStart, lines |-> lines,
     has_additions |-> counts.has_additions,
     has_deletions |-> counts.has_deletions,
     additions |-> counts.additions, deletions |-> counts.deletions]

\* The record has neither 'additions' nor 'deletions'.
NoCounts ==
    [has_additions |-> FALSE, has_deletions |-> FALSE,
     additions |-> 0, deletions |-> 0]

\* Variant: the explicit counts are used as soon as one of the keys is there.
PatchCounts_EitherKey(p) ==
    IF p.has_additions \/ p.has_deletions
    THEN [additions |-> IF p.has_additions THEN p.additions ELSE 0,
          deletions |-> IF p.has_deletions THEN p.deletions ELSE 0]
    ELSE [additions |-> CountSigned(p.lines, "+"),
          deletions |-> CountSigned(p.lines, "-")]

\* What one patch adds to additions and deletions in the totals loop.
PatchCounts(p) ==
    IF p.has_additions /\ p.has_deletions
    THEN [additions |-> p.additions, deletions |-> p.deletions]
    ELSE [additions |-> CountSigned(p.lines, "+"),
          deletions |-> CountSigned(p.lines, "-")]

\* The totals loop over patches[1..k].
RECURSIVE PatchTotals(_, _)
PatchTotals(ps, k) ==
    IF k = 0 THEN [additions |-> 0, deletions |-> 0]
    ELSE LET t == PatchTotals(ps, k - 1)
             c == PatchCounts(ps[k])
         IN [additions |-> t.additions + c.additions,
             deletions |-> t.deletions + c.deletions]

\* Variant: a context line advances the new counter only.
RenderPatchLine_ContextNewOnly(lines, idx, old_num, new_num) ==
    LET line == lines[idx + 1]
        formatted_line == FormatDiffLine(line, lines, idx).text
    IN IF StartsWith(line, <<"-">>)
       THEN [old_line_num |-> old_num + 1, new_line_num |-> new_num,
             row |-> Row("delete", TRUE, old_num, formatted_line)]
       ELSE IF StartsWith(line, <<"+">>)
       THEN [old_line_num |-> old_num, new_line_num |-> new_num + 1,
             row |-> Row("add", TRUE, new_num, formatted_line)]
       ELSE [old_line_num |-> old_num, new_line_num |-> new_num + 1,
             row |-> Row("context", TRUE, new_num, Slice(line, 1, Len(line)))]

\* One iteration of `for i, line in enumerate(lines)`: the new counters and
\* the row.
RenderPatchLine(lines, idx, old_num, new_num) ==
    LET line == lines[idx + 1]
        formatted_line == FormatDiffLine(line, lines, idx).text
    IN IF StartsWith(line, <<"-">>)
       THEN [old_line_num |-> old_num + 1, new_line_num |-> new_num,
             row |-> Row("delete", TRUE, old_num, formatted_line)]
       ELSE IF StartsWith(line, <<"+">>)
       THEN [old_line_num |-> old_num, new_line_num |-> new_num + 1,
             row |-> Row("add", TRUE, new_num, formatted_line)]
       ELSE [old_line_num |-> old_num + 1, new_line_num |-> new_num + 1,
             row |-> Row("context", TRUE, new_num, Slice(line, 1, Len(line)))]

\* The totals loop over all patches, and the 'Modified' header.
CountTotals ==
    /\ pc = "patch_call"
    /\ patches # <<>>
    /\ additions' = PatchTotals(patches, Len(patches)).additions
    /\ deletions' = PatchTotals(patches, Len(patches)).deletions
    /\ output_lines' = <<Row("modified", FALSE, 0, <<>>)>>
    /\ pc' = "patch_hunk"
    /\ UNCHANGED <<old_string, new_string, diff_lines, patches, hunkNo,
                   line_idx, line_num, old_line_num, new_line_num>>
    /\ UNCHANGED coreVars

\* The rendering loop takes the next patch and sets the counters.
StartHunk ==
    /\ pc = "patch_hunk"
    /\ hunkNo < Len(patches)
    /\ hunkNo' = hunkNo + 1
    /\ old_line_num' = patches[hunkNo + 1].oldStart
    /\ new_line_num' = patches[hunkNo + 1].newStart
    /\ line_idx' = 0
    /\ pc' = "patch_line"
    /\ UNCHANGED <<old_string, new_string, diff_lines, patches, line_num,
                   additions, deletions, output_lines>>
    /\ UNCHANGED coreVars

\* One line of the patch is rendered.
PatchLine ==
    /\ pc = "patch_line"
    /\ line_idx < Len(patches[hunkNo].lines)
    /\ LET r == RenderPatchLine(patches[hunkNo].lines, line_idx,
                               old_line_num, new_line_num) IN
         /\ old_line_num' = r.old_line_num
         /\ new_line_num' = r.new_line_num
         /\ output_lines' = Append(output_lines, r.row)
    /\ line_idx' = line_idx + 1
    /\ UNCHANGED <<old_string, new_string, diff_lines, patches, hunkNo,
                   line_num, additions, deletions, pc>>
    /\ UNCHANGED coreVars

\* The lines of the patch are exhausted.
EndHunk ==
    /\ pc = "patch_line"
    /\ ~(line_idx < Len(patches[hunkNo].lines))
    /\ pc' = "patch_hunk"
    /\ UNCHANGED diffVars
    /\ UNCHANGED coreVars

\* The patches are exhausted; the rows are joined and returned.
PatchReturn ==
    /\ pc = "patch_hunk"
    /\ ~(hunkNo < Len(patches))
    /\ pc' = "patch_done"
    /\ UNCHANGED diffVars
    /\ UNCHANGED coreVars

MaxHunks == 2

MaxPatchLines == 4

MaxCountedLines == 2

\* `patches` is a list that extends `prefix` by at most h hunks with at most
\* m lines in all, the lines drawn from `choices`, the start pairs from
\* `starts`, the counts from `counts`.
RECURSIVE PatchListFrom(_, _, _, _, _, _)
PatchListFrom(prefix, h, m, choices, starts, counts) ==
    \/ patches = prefix
    \/ /\ h > 0
       /\ \E k \in 0..m :
            \E st \in starts, ls \in [1..k -> choices], c \in counts :
                PatchListFrom(Append(prefix, Hunk(st[1], st[2], ls, c)),
                              h - 1, m - k, choices, starts, counts)

\* The hunk of spec.md's example.
ExampleHunk ==
    Hunk(10, 12, << <<" ", "a">>, <<"-", "b">>, <<"+", "c">>, <<" ", "d">> >>,
         NoCounts)

\* The start pairs explored; <<0, 0>> is also what missing keys read as.
StartPairs == {<<10, 12>>, <<0, 0>>}

\* The explicit counts explored: none, both keys, 'additions' alone.
ExplicitCounts ==
    {NoCounts,
     [has_additions |-> TRUE, has_deletions |-> TRUE,
      additions |-> 2, deletions |-> 1],
     [has_additions |-> TRUE, has_deletions |-> FALSE,
      additions |-> 2, deletions |-> 0]}

\* `patches` is one of the structured patches explored: hunks of context, delete and add lines
\* at several starts; hunks with and without explicit counts whose lines
\* include '+++' and '---'; and spec.md's example, alone and after a hunk.
PatchInputs ==
    \/ PatchListFrom(<<>>, MaxHunks, MaxPatchLines,
                     {<<" ", "a">>, <<"-", "b">>, <<"+", "c">>},
                     StartPairs, {NoCounts})
    \/ PatchListFrom(<<>>, MaxHunks, MaxCountedLines,
                     {<<"+", "c">>, <<"-", "b">>,
                      <<"+", "+", "+">>, <<"-", "-", "-">>},
                     {<<1, 1>>}, ExplicitCounts)
    \/ patches \in {<<ExampleHunk>>,
                    <<Hunk(1, 1, << <<"+", "c">> >>, NoCounts), ExampleHunk>>}

\* An Edit result with a structuredPatch is about to be rendered.
InitPatch ==
    /\ PatchInputs
    /\ patches # <<>>
    /\ old_string = <<>>
    /\ new_string = <<>>
    /\ diff_lines = <<>>
    /\ hunkNo = 0
    /\ line_idx = 0
    /\ line_num = 0
    /\ old_line_num = 0
    /\ new_line_num = 0
    /\ additions = 0
    /\ deletions = 0
    /\ output_lines = <<>>
    /\ pc = "patch_call"
    /\ CoreIdle

NextPatch == CountTotals \/ StartHunk \/ PatchLine \/ EndHunk \/ PatchReturn

SpecPatch == InitPatch /\ [][NextPatch]_vars

----------------------------------------------------------------------------
(* The calls of _format_diff_line_with_inline_highlight by a rendering loop *)

\* The loop calls the formatter on line line_idx of the list; the branch
\* taken and the string returned are kept.
FormatLine ==
    /\ pc = "format_lines"
    /\ line_idx < Len(diff_lines)
    /\ output_lines' = Append(output_lines,
           FormatDiffLine(diff_lines[line_idx + 1], diff_lines, line_idx))
    /\ line_idx' = line_idx + 1
    /\ UNCHANGED <<old_string, new_string, diff_lines, patches, hunkNo,
                   line_num, old_line_num, new_line_num, additions, deletions,
                   pc>>
    /\ UNCHANGED coreVars

\* The list is exhausted.
FormatEnd ==
    /\ pc = "format_lines"
    /\ ~(line_idx < Len(diff_lines))
    /\ pc' = "format_done"
    /\ UNCHANGED diffVars
    /\ UNCHANGED coreVars

MaxDiffLines == 4

MaxContent == 3

\* Lines of every kind: deleted, added, context and empty.
KindLines == {<<"-", "a">>, <<"+", "a">>, <<"+", "b">>, <<" ", "a">>, <<>>}

\* The strings of spec.md's example.
FooBar == <<"f", "o", "o", " ", "b", "a", "r">>

FooBaz == <<"f", "o", "o", " ", "b", "a", "z">>

\* The line lists explored: every list of lines of every kind, every
\* delete/add pair of short contents, and the pairs "foo bar"/"foo baz" and
\* "aaa"/"abaa".
LineLists ==
    SeqUpTo(KindLines, MaxDiffLines)
        \cup {<< <<"-">> \o x, <<"+">> \o y >> :
                 x \in SeqUpTo({"a", "b"}, MaxContent),
                 y \in SeqUpTo({"a", "b"}, MaxContent)}
        \cup {<< <<"-">> \o FooBar, <<"+">> \o FooBaz >>,
              << <<"-", "a", "a", "a">>, <<"+", "a", "b", "a", "a">> >>}

\* A rendering loop is about to format the lines of a list.
InitFormat ==
    /\ diff_lines \in LineLists
    /\ old_string = <<>>
    /\ new_string = <<>>
    /\ patches = <<>>
    /\ hunkNo = 0
    /\ line_idx = 0
    /\ line_num = 0
    /\ old_line_num = 0
    /\ new_line_num = 0
    /\ additions = 0
    /\ deletions = 0
    /\ output_lines = <<>>
    /\ pc = "format_lines"
    /\ CoreIdle

NextFormat == FormatLine \/ FormatEnd

SpecFormat == InitFormat /\ [][NextFormat]_vars

----------------------------------------------------------------------------
(* format_assistant_response: the rendering of one ToolUse                 *)

\* Tool names: the file-editing tools, two tools with a display of their
\* own, and the default of tool.get('name', 'Unknown').
ToolNames == {"Edit", "MultiEdit", "Bash", "Read", "Unknown"}

\* The tool line of the ToolUse (and, for Bash, its command) is appended.
ToolLine ==
    /\ pc = "tool_line"
    /\ resp_lines' = Append(resp_lines, Row("tool_line", FALSE, 0, <<>>))
    /\ pc' = "find_call"
    /\ UNCHANGED <<log, lineNo, stderr, entries, conversation_pairs, i,
                   tool, tool_results, fidx, ret, tool_name, calls>>
    /\ UNCHANGED viewVars
    /\ UNCHANGED diffVars

\* `if tool_result:` with a result found: _format_tool_result returns a text
\* that is appended, or the empty string (no 'toolUseResult' in the entry)
\* and nothing is appended.
ResultFound ==
    /\ pc = "find_done"
    /\ ret.kind = "result"
    /\ \/ resp_lines' = Append(resp_lines, Row("result", FALSE, 0, <<>>))
       \/ resp_lines' = resp_lines
    /\ pc' = "tool_done"
    /\ UNCHANGED <<log, lineNo, stderr, entries, conversation_pairs, i,
                   tool, tool_results, fidx, ret, tool_name, calls>>
    /\ UNCHANGED viewVars
    /\ UNCHANGED diffVars

\* The exception raised inside _find_tool_result leaves the method.
FindRaised ==
    /\ pc = "find_done"
    /\ ret.kind = "raised"
    /\ pc' = "raised"
    /\ UNCHANGED coreVars
    /\ UNCHANGED diffVars

\* The else branch of `if tool_result:`: only Edit and MultiEdit go on to
\* _generate_diff_from_tool_input.
NoResult ==
    /\ pc = "find_done"
    /\ ret.kind = "None"
    /\ pc' = IF tool_name \in {"Edit", "MultiEdit"} THEN "edit_call"
             ELSE "tool_done"
    /\ UNCHANGED coreVars
    /\ UNCHANGED diffVars

\* lines.append('\n'.join(output_lines)), inside `if diff_lines:`.
AppendEdit ==
    /\ pc = "edit_done"
    /\ resp_lines' = IF diff_lines # <<>>
                     THEN Append(resp_lines, Row("edit", FALSE, 0, output_lines))
                     ELSE resp_lines
    /\ pc' = "tool_done"
    /\ UNCHANGED <<log, lineNo, stderr, entries, conversation_pairs, i,
                   tool, tool_results, fidx, ret, tool_name, calls>>
    /\ UNCHANGED viewVars
    /\ UNCHANGED diffVars

\* The results a pair may hold for the ToolUse: carriers of one id each,
\* and a carrier with an empty content list.
PairResults ==
    {ResultShape("dict", "list", <<Item(t)>>) : t \in ToolIds}
        \cup {ResultShape("dict", "list", <<>>)}

\* The old_string / new_string explored.
ToolTexts == {<<>>, <<"a", "\n">>, <<"b", "\n">>, <<"a", "\n", "b", "\n">>}

\* The loop over tool_uses reaches a ToolUse of any name.
InitToolUse ==
    /\ tool_name \in ToolNames
    /\ tool \in Tools
    /\ tool_results \in SeqUpTo(PairResults, MaxResults)
    /\ old_string \in ToolTexts
    /\ new_string \in ToolTexts
    /\ resp_lines = <<>>
    /\ calls = 0
    /\ ViewIdle
    /\ fidx = 0
    /\ ret = NoRet
    /\ diff_lines = <<>>
    /\ patches = <<>>
    /\ hunkNo = 0
    /\ line_idx = 0
    /\ line_num = 0
    /\ old_line_num = 0
    /\ new_line_num = 0
    /\ additions = 0
    /\ deletions = 0
    /\ output_lines = <<>>
    /\ pc = "tool_line"
    /\ log = <<>>
    /\ lineNo = 0
    /\ stderr = 0
    /\ entries = <<>>
    /\ conversation_pairs = <<>>
    /\ i = 0

NextToolUse ==
    \/ ToolLine
    \/ FindEnter
    \/ FindIterate
    \/ FindExhausted
    \/ ResultFound
    \/ FindRaised
    \/ NoResult
    \/ GenerateDiff
    \/ RenderLine
    \/ RenderReturn
    \/ AppendEdit

SpecToolUse == InitToolUse /\ [][NextToolUse]_vars

----------------------------------------------------------------------------
(* format_entries                                                          *)

MaxEvents == 5

\* A parsed record as format_entries reads it: its type, its 'toolUseResult'
\* key, and `body` for the rest of the dict ('message', 'uuid', 'timestamp',
\* ...).  The body "" is one that format_user_message (line 286) and
\* format_assistant_response render as the empty string.
Events ==
    {[type |-> "user", toolUseResult |-> FALSE, body |-> "x"],
     [type |-> "user", toolUseResult |-> FALSE, body |-> "y"],
     [type |-> "user", toolUseResult |-> FALSE, body |-> ""],
     [type |-> "user", toolUseResult |-> TRUE, body |-> "r"],
     [type |-> "assistant", toolUseResult |-> FALSE, body |-> "x"],
     [type |-> "assistant", toolUseResult |-> FALSE, body |-> ""]}

\* A string appended to `output`, kept as what it is and the index of the
\* pair whose iteration appended it.
OutRow(kind, n) == [kind |-> kind, pair |-> n]

\* `current_user_message != last_user_message`: both are references; None
\* differs from every dict, and two dicts are compared by their contents.
UserMessageDiffers(es, current, last) ==
    last = NoMessage \/ es[current + 1] # es[last + 1]

\* The strings one iteration of the loop appends for pair n.
PairRows(es, pairs, n, last) ==
    LET pair == pairs[n + 1] IN
    (IF UserMessageDiffers(es, pair.user_message, last)
          /\ es[pair.user_message + 1].body # ""
     THEN <<OutRow("user", n)>> ELSE <<>>)
    \o (IF es[pair.assistant_response + 1].body # ""
        THEN <<OutRow("assistant", n)>> ELSE <<>>)
    \o (IF n < Len(pairs) - 1 THEN <<OutRow("spacing", n)>> ELSE <<>>)

\* The welcome banner is appended; the loop is about to start.
FormatBanner ==
    /\ pc = "format_entries"
    /\ output' = <<OutRow("banner", 0)>>
    /\ last_user_message' = NoMessage
    /\ i' = 0
    /\ pc' = "format_pairs"
    /\ UNCHANGED <<log, lineNo, stderr, entries, conversation_pairs,
                   tool, tool_results, fidx, ret, tool_name, resp_lines, calls>>
    /\ UNCHANGED <<menuVars, sessionVars>>
    /\ UNCHANGED diffVars

\* One iteration of the loop over self.conversation_pairs.
FormatPair ==
    /\ pc = "format_pairs"
    /\ i < Len(conversation_pairs)
    /\ LET current_user_message == conversation_pairs[i + 1].user_message IN
         /\ output' = output \o PairRows(entries, conversation_pairs, i,
                                         last_user_message)
         /\ last_user_message' =
                IF UserMessageDiffers(entries, current_user_message,
                                      last_user_message)
                THEN current_user_message ELSE last_user_message
    /\ i' = i + 1
    /\ UNCHANGED <<log, lineNo, stderr, entries, conversation_pairs, pc,
                   tool, tool_results, fidx, ret, tool_name, resp_lines, calls>>
    /\ UNCHANGED <<menuVars, sessionVars>>
    /\ UNCHANGED diffVars

\* The loop is exhausted; the joined output is returned.
FormatReturn ==
    /\ pc = "format_pairs"
    /\ ~(i < Len(conversation_pairs))
    /\ pc' = "entries_done"
    /\ UNCHANGED coreVars
    /\ UNCHANGED diffVars

\* format_entries is called on a formatter that has parsed a log: entries
\* is any sequence of records and conversation_pairs what assembly made of it.
InitFormatEntries ==
    /\ entries \in SeqUpTo(Events, MaxEvents)
    /\ conversation_pairs = BuildConversationPairs(entries, 0, <<>>)
    /\ pc = "format_entries"
    /\ i = 0
    /\ log = <<>>
    /\ lineNo = 0
    /\ stderr = 0
    /\ tool = NoTool
    /\ tool_results = <<>>
    /\ fidx = 0
    /\ ret = NoRet
    /\ DiffIdle

NextFormatEntries == FormatBanner \/ FormatPair \/ FormatReturn

SpecFormatEntries == InitFormatEntries /\ [][NextFormatEntries]_vars

----------------------------------------------------------------------------
(* interactive_menu                                                        *)

MaxItems == 12

\* window_size: "Display 10 items at a time".
WindowSize == 10

\* Bug variant of ScrollWindow: the "+ 1" of the scroll down is missing.
ScrollWindow_OffByOne(sel, start) ==
    IF sel < start THEN sel
    ELSE IF sel >= start + WindowSize THEN sel - WindowSize
    ELSE start

\* "Calculate scrolling window": the window_start of this rendering.
ScrollWindow(sel, start) ==
    IF sel < start THEN sel
    ELSE IF sel >= start + WindowSize THEN sel - WindowSize + 1
    ELSE start

\* Keys that move the selection up and down: w/W and ESC [ A, s/S and
\* ESC [ B.
UpKeys == {"w", "W", "ESC[A"}

DownKeys == {"s", "S", "ESC[B"}

\* Keys the loop ignores: other characters and other escape sequences.
IgnoredKeys == {"a", "ESC[C", "ESC"}

\* Keys the loop cannot handle: a character for which isdigit() is true and
\* int() raises ValueError, and the empty string read at end of input, for
\* which ord() raises TypeError.
RaisingKeys == {"SUPERSCRIPT TWO", ""}

\* selected - 1 and selected + 1 modulo len(items); Python's % of a positive
\* modulus is never negative.
MoveSelection(sel, step, n) == (sel + step) % n

MenuReturn(kind, index) == [kind |-> kind, index |-> index]

\* The top of the loop: the window is scrolled to the selection and the
\* menu is printed; get_key is about to be called.
RenderMenu ==
    /\ pc = "menu_render"
    /\ window_start' = ScrollWindow(selected, window_start)
    /\ window_end' = Min(window_start' + WindowSize, Len(items))
    /\ pc' = "menu_key"
    /\ UNCHANGED <<items, selected, key, choice>>
    /\ UNCHANGED <<log, lineNo, stderr, entries, conversation_pairs, i,
                   tool, tool_results, fidx, ret, tool_name, resp_lines, calls>>
    /\ UNCHANGED <<entriesVars, sessionVars>>
    /\ UNCHANGED diffVars

\* A key that moves the selection; the loop goes round.
MoveKey ==
    /\ pc = "menu_key"
    /\ \E k \in UpKeys \cup DownKeys :
           /\ key' = k
           /\ selected' = MoveSelection(selected,
                              IF k \in UpKeys THEN -1 ELSE 1, Len(items))
    /\ pc' = "menu_render"
    /\ UNCHANGED <<items, window_start, window_end, choice>>
    /\ UNCHANGED <<log, lineNo, stderr, entries, conversation_pairs, i,
                   tool, tool_results, fidx, ret, tool_name, resp_lines, calls>>
    /\ UNCHANGED <<entriesVars, sessionVars>>
    /\ UNCHANGED diffVars

\* Enter, L, X or Q: the menu returns.
ReturnKey ==
    /\ pc = "menu_key"
    /\ \E k \in {"\r", "\n", "l", "x", "q"} :
           /\ key' = k
           /\ choice' = IF k \in {"\r", "\n"} THEN MenuReturn("index", selected)
                        ELSE IF k = "l" THEN MenuReturn("less", selected)
                        ELSE IF k = "x" THEN MenuReturn("back", -2)
                        ELSE MenuReturn("quit", -1)
    /\ pc' = "menu_done"
    /\ UNCHANGED <<items, selected, window_start, window_end>>
    /\ UNCHANGED <<log, lineNo, stderr, entries, conversation_pairs, i,
                   tool, tool_results, fidx, ret, tool_name, resp_lines, calls>>
    /\ UNCHANGED <<entriesVars, sessionVars>>
    /\ UNCHANGED diffVars

\* A number shortcut: '0' is the 10th visible item, '1'..'9' the first nine;
\* the menu returns the target when it is below window_end, and goes round
\* otherwise.
DigitKey ==
    /\ pc = "menu_key"
    /\ \E k \in {DigitChars[d] : d \in 1..Len(DigitChars)} :
           /\ key' = k
           /\ LET target_idx == IF k = "0" THEN window_start + 9
                                ELSE window_start + (DigitValue(k) - 1)
              IN IF target_idx < window_end
                 THEN /\ choice' = MenuReturn("index", target_idx)
                      /\ pc' = "menu_done"
                 ELSE /\ choice' = choice
                      /\ pc' = "menu_render"
    /\ UNCHANGED <<items, selected, window_start, window_end>>
    /\ UNCHANGED <<log, lineNo, stderr, entries, conversation_pairs, i,
                   tool, tool_results, fidx, ret, tool_name, resp_lines, calls>>
    /\ UNCHANGED <<entriesVars, sessionVars>>
    /\ UNCHANGED diffVars

\* Any other key or escape sequence is ignored; the loop goes round.
IgnoredKey ==
    /\ pc = "menu_key"
    /\ key' \in IgnoredKeys
    /\ pc' = "menu_render"
    /\ UNCHANGED <<items, selected, window_start, window_end, choice>>
    /\ UNCHANGED <<log, lineNo, stderr, entries, conversation_pairs, i,
                   tool, tool_results, fidx, ret, tool_name, resp_lines, calls>>
    /\ UNCHANGED <<entriesVars, sessionVars>>
    /\ UNCHANGED diffVars

\* int(key) or ord(key) raises; the exception leaves interactive_menu.
RaisingKey ==
    /\ pc = "menu_key"
    /\ key' \in RaisingKeys
    /\ choice' = MenuReturn("raised", 0)
    /\ pc' = "menu_raised"
    /\ UNCHANGED <<items, selected, window_start, window_end>>
    /\ UNCHANGED <<log, lineNo, stderr, entries, conversation_pairs, i,
                   tool, tool_results, fidx, ret, tool_name, resp_lines, calls>>
    /\ UNCHANGED <<entriesVars, sessionVars>>
    /\ UNCHANGED diffVars

\* interactive_menu entered on a terminal with a list of one or more items.
InitMenu ==
    /\ \E n \in 1..MaxItems : items = [m \in 1..n |-> "item"]
    /\ selected = 0
    /\ window_start = 0
    /\ window_end = 0
    /\ key = ""
    /\ choice = NoChoice
    /\ pc = "menu_render"
    /\ FormatEntriesIdle
    /\ SessionIdle
    /\ tool_name = ""
    /\ resp_lines = <<>>
    /\ calls = 0
    /\ log = <<>>
    /\ lineNo = 0
    /\ stderr = 0
    /\ entries = <<>>
    /\ conversation_pairs = <<>>
    /\ i = 0
    /\ tool = NoTool
    /\ tool_results = <<>>
    /\ fidx = 0
    /\ ret = NoRet
    /\ old_string = <<>>
    /\ new_string = <<>>
    /\ diff_lines = <<>>
    /\ patches = <<>>
    /\ hunkNo = 0
    /\ line_idx = 0
    /\ line_num = 0
    /\ old_line_num = 0
    /\ new_line_num = 0
    /\ additions = 0
    /\ deletions = 0
    /\ output_lines = <<>>

NextMenu ==
    RenderMenu \/ MoveKey \/ ReturnKey \/ DigitKey \/ IgnoredKey \/ RaisingKey

SpecMenu == InitMenu /\ [][NextMenu]_vars

----------------------------------------------------------------------------
(* main --menu and InteractiveSession                                      *)

\* The keys of THEMES.
Themes == {"default", "minimal", "classic", "plain"}

\* The command lines that start the interactive menu mode; `output` is
\* whether --output was given.
MenuArgs ==
    [menu : {TRUE}, no_color : BOOLEAN, force_color : BOOLEAN,
     output : BOOLEAN, theme : Themes]

\* main, "Handle --menu mode first": a new session takes the flags given.
SessionSettings(a) ==
    [theme |-> IF a.theme # "default" THEN a.theme ELSE NewSettings.theme,
     output_file |-> IF a.output THEN TRUE ELSE NewSettings.output_file,
     no_color |-> IF a.no_color THEN TRUE ELSE NewSettings.no_color,
     force_color |-> IF a.force_color THEN TRUE ELSE NewSettings.force_color,
     use_less |-> NewSettings.use_less]

\* configure_output, choice 1 (Colors).
ToggledColors(st) ==
    [st EXCEPT !.no_color = ~st.no_color,
               !.force_color = IF ~st.no_color THEN FALSE ELSE st.force_color]

\* configure_output, choice 2 (Force colors).
ToggledForceColor(st) ==
    IF ~st.no_color THEN [st EXCEPT !.force_color = ~st.force_color] ELSE st

\* What a method of the session leaves alone.
SessionFrame ==
    /\ UNCHANGED <<args, pc>>
    /\ UNCHANGED <<log, lineNo, stderr, entries, conversation_pairs, i,
                   tool, tool_results, fidx, ret, tool_name, resp_lines, calls>>
    /\ UNCHANGED <<entriesVars, menuVars>>
    /\ UNCHANGED diffVars

\* main creates the session and hands it the flags of the command line.
StartSession ==
    /\ pc = "main"
    /\ args.menu
    /\ settings' = SessionSettings(args)
    /\ pc' = "session"
    /\ UNCHANGED args
    /\ UNCHANGED <<log, lineNo, stderr, entries, conversation_pairs, i,
                   tool, tool_results, fidx, ret, tool_name, resp_lines, calls>>
    /\ UNCHANGED <<entriesVars, menuVars>>
    /\ UNCHANGED diffVars

\* configure_output: the menu returned 1.
ToggleColors ==
    /\ pc = "session"
    /\ settings' = ToggledColors(settings)
    /\ SessionFrame

\* configure_output: the menu returned 2.
ToggleForceColor ==
    /\ pc = "session"
    /\ settings' = ToggledForceColor(settings)
    /\ SessionFrame

\* configure_output: the menu returned 3.
ToggleLess ==
    /\ pc = "session"
    /\ settings' = [settings EXCEPT !.use_less = ~settings.use_less]
    /\ SessionFrame

\* configure_output: the menu returned 0; _configure_output_file disables
\* the output file or _prompt_output_file sets one.
ConfigureOutputFile ==
    /\ pc = "session"
    /\ \E f \in BOOLEAN :
           /\ f \/ settings.output_file
           /\ settings' = [settings EXCEPT !.output_file = f]
    /\ SessionFrame

\* configure_theme: a theme is chosen.
ConfigureTheme ==
    /\ pc = "session"
    /\ \E t \in Themes : settings' = [settings EXCEPT !.theme = t]
    /\ SessionFrame

InitSession ==
    /\ args \in MenuArgs
    /\ settings = NewSettings
    /\ pc = "main"
    /\ FormatEntriesIdle
    /\ MenuIdle
    /\ tool_name = ""
    /\ resp_lines = <<>>
    /\ calls = 0
    /\ log = <<>>
    /\ lineNo = 0
    /\ stderr = 0
    /\ entries = <<>>
    /\ conversation_pairs = <<>>
    /\ i = 0
    /\ tool = NoTool
    /\ tool_results = <<>>
    /\ fidx = 0
    /\ ret = NoRet
    /\ old_string = <<>>
    /\ new_string = <<>>
    /\ diff_lines = <<>>
    /\ patches = <<>>
    /\ hunkNo = 0
    /\ line_idx = 0
    /\ line_num = 0
    /\ old_line_num = 0
    /\ new_line_num = 0
    /\ additions = 0
    /\ deletions = 0
    /\ output_lines = <<>>

NextSession ==
    \/ StartSession
    \/ ToggleColors
    \/ ToggleForceColor
    \/ ToggleLess
    \/ ConfigureOutputFile
    \/ ConfigureTheme

SpecSession == InitSession /\ [][NextSession]_vars

----------------------------------------------------------------------------
(* Vocabulary of the properties (spec.md, section 3 and glossary).         *)

\* A user event that is not a tool-result carrier opens a turn.
PlainUser(e) == e.type = "user" /\ ~e.toolUseResult

\* A tool-result carrier: type 'user' with a 'toolUseResult' key.
Carrier(e) == e.type = "user" /\ e.toolUseResult

Indices(es) == 0..(Len(es) - 1)

PlainUserIdx(es) == {n \in Indices(es) : PlainUser(es[n + 1])}

Least(S) == CHOOSE x \in S : \A y \in S : x <= y

Greatest(S) == CHOOSE x \in S : \A y \in S : y <= x

\* Index of the event that ends the turn opened at u: the next plain user
\* event, or the end of the sequence.
TurnEnd(es, u) ==
    LET later == {v \in PlainUserIdx(es) : v > u}
    IN IF later = {} THEN Len(es) ELSE Least(later)

\* The events of the turn opened at u, the opening event excluded.
Turn(es, u) == (u + 1)..(TurnEnd(es, u) - 1)

AssistantsInTurn(es, u) == {a \in Turn(es, u) : es[a + 1].type = "assistant"}

PairIdx == 1..Len(conversation_pairs)

\* C1: every pair's tool_results is the contiguous run of entries that
\* starts right after the pair's assistant_response, in log order, and every
\* element of it is a tool-result carrier.
C1_ToolResultsContiguousCarriers ==
    \A n \in PairIdx :
        LET p == conversation_pairs[n] IN
        \A m \in 1..Len(p.tool_results) :
            /\ p.tool_results[m] = p.assistant_response + m
            /\ p.tool_results[m] < Len(entries)
            /\ Carrier(entries[p.tool_results[m] + 1])

\* Assembly finished with a pair that collected two or more tool results.
C1_Witness ==
    /\ pc = "done"
    /\ \E n \in PairIdx : Len(conversation_pairs[n].tool_results) >= 2

\* C2: a turn with N assistant events yields exactly N pairs, and each of
\* them has the turn's opening user event as user_message.
C2_TurnYieldsOnePairPerAssistant ==
    pc = "done" =>
        \A u \in PlainUserIdx(entries) :
            LET ofTurn == {n \in PairIdx :
                    conversation_pairs[n].assistant_response \in Turn(entries, u)}
            IN /\ Cardinality(ofTurn) = Cardinality(AssistantsInTurn(entries, u))
               /\ \A n \in ofTurn : conversation_pairs[n].user_message = u

\* Assembly finished on a log with a turn of two or more assistant events.
C2_Witness ==
    /\ pc = "done"
    /\ \E u \in PlainUserIdx(entries) :
           Cardinality(AssistantsInTurn(entries, u)) >= 2

\* C3: every pair's user_message is the last plain user event before its
\* assistant_response.
C3_UserMessageIsLastPlainUser ==
    \A n \in PairIdx :
        LET p == conversation_pairs[n]
            before == {u \in PlainUserIdx(entries) : u < p.assistant_response}
        IN before # {} /\ p.user_message = Greatest(before)

\* A second turn produced a pair although a skipped event or an orphan
\* carrier lies between the previous pair and the second turn's user event.
C3_Witness ==
    /\ pc = "done"
    /\ \E n \in PairIdx : \E m \in PairIdx :
           LET p == conversation_pairs[n]
               q == conversation_pairs[m]
               endp == p.assistant_response + Len(p.tool_results)
           IN /\ p.user_message < q.user_message
              /\ endp + 1 < q.user_message

\* C4: the carrier run of a pair is maximal: the entry after it is past the
\* end of the log or is no carrier.
C4_CarrierRunIsMaximal ==
    \A n \in PairIdx :
        LET p == conversation_pairs[n]
            nxt == p.assistant_response + Len(p.tool_results) + 1
        IN nxt >= Len(entries) \/ ~Carrier(entries[nxt + 1])

\* A pair collected two carriers and stopped at an entry that is no carrier.
C4_Witness ==
    /\ pc = "done"
    /\ \E n \in PairIdx :
           LET p == conversation_pairs[n]
               nxt == p.assistant_response + Len(p.tool_results) + 1
           IN Len(p.tool_results) >= 2 /\ nxt < Len(entries)

\* The entries without the turn opened at u (its user event included).
WithoutTurn(es, u) ==
    SubSeq(es, 1, u) \o SubSeq(es, TurnEnd(es, u) + 1, Len(es))

\* A pair over WithoutTurn(es, u), with its references moved back to the
\* positions the same entries have in es.
Reindex(es, u, p) ==
    LET sh(x) == IF x < u THEN x ELSE x + (TurnEnd(es, u) - u)
    IN [user_message |-> sh(p.user_message),
        assistant_response |-> sh(p.assistant_response),
        tool_results |-> [m \in 1..Len(p.tool_results) |-> sh(p.tool_results[m])]]

\* C5: a turn without an assistant event yields no pair, and the pairs of
\* the other turns are those assembled from the log without that turn.
C5_EmptyTurnIsAbsorbed ==
    pc = "done" =>
        \A u \in PlainUserIdx(entries) :
            AssistantsInTurn(entries, u) = {} =>
                LET rest == BuildConversationPairs(WithoutTurn(entries, u), 0, <<>>)
                IN /\ \A n \in PairIdx :
                          /\ conversation_pairs[n].user_message # u
                          /\ conversation_pairs[n].assistant_response
                                 \notin Turn(entries, u)
                   /\ Len(rest) = Len(conversation_pairs)
                   /\ \A n \in PairIdx :
                          Reindex(entries, u, rest[n]) = conversation_pairs[n]

\* An empty turn lies between a turn with a pair and a later turn with a pair.
C5_Witness ==
    /\ pc = "done"
    /\ \E u \in PlainUserIdx(entries) :
           /\ AssistantsInTurn(entries, u) = {}
           /\ \E n \in PairIdx : conversation_pairs[n].assistant_response < u
           /\ \E n \in PairIdx : conversation_pairs[n].assistant_response > u

\* Carrier c lies in the contiguous carrier run directly after an assistant
\* event of an open turn.
InRunAfterTurnAssistant(es, c) ==
    \E a \in 0..(c - 1) :
        /\ es[a + 1].type = "assistant"
        /\ \A m \in (a + 1)..c : Carrier(es[m + 1])
        /\ \E u \in PlainUserIdx(es) : u < a

Orphans(es) ==
    {c \in Indices(es) : Carrier(es[c + 1]) /\ ~InRunAfterTurnAssistant(es, c)}

\* C6: a carrier outside the carrier run directly after an assistant event
\* of an open turn is in no pair's tool_results.
C6_OrphanCarrierNeverIncorporated ==
    \A c \in Orphans(entries) :
        \A n \in PairIdx :
            \A m \in 1..Len(conversation_pairs[n].tool_results) :
                conversation_pairs[n].tool_results[m] # c

\* Assembly finished with a pair whose turn also holds an orphan carrier
\* after the pair (behind a skipped event), and with an orphan before the
\* first turn.
C6_Witness ==
    /\ pc = "done"
    /\ \E c \in Orphans(entries) : \A u \in PlainUserIdx(entries) : c < u
    /\ \E c \in Orphans(entries) : \E n \in PairIdx :
           /\ conversation_pairs[n].assistant_response < c
           /\ c \in Turn(entries, conversation_pairs[n].user_message)

\* The id a carrier is correlated to: the 'tool_use_id' of the first item of
\* its message's content list; None when the carrier has no such item.
CorrelatedId(result) ==
    IF result.message = "dict" /\ result.content = "list" /\ Len(result.items) > 0
    THEN result.items[1].tool_use_id
    ELSE None

\* Python indices of the results correlated to the ToolUse's id.
CorrelatedIdx ==
    {n \in 0..(Len(tool_results) - 1) :
        tool.has_id /\ CorrelatedId(tool_results[n + 1]) = tool.id}

\* C7: when no carrier is correlated to the ToolUse's id, the lookup returns
\* None and does not raise, whatever the shapes of the tool and the carriers.
C7_AbsentNeverRaises ==
    (pc = "find_done" /\ CorrelatedIdx = {}) => ret.kind = "None"

\* C8: when a carrier is correlated to the ToolUse's id t, the lookup returns
\* the lowest-index such carrier.
C8_ReturnsFirstCorrelated ==
    (pc = "find_done" /\ tool.has_id /\ tool.id # "" /\ CorrelatedIdx # {}) =>
        (ret.kind = "result" /\ ret.index = Least(CorrelatedIdx))

\* The lines json.loads fails on.
BadJsonIdx == {n \in 1..Len(log) : log[n].kind = "badjson"}

DecodableLines == SelectSeq(log, LAMBDA l : l.kind # "badjson")

\* C9: undecodable lines do not change the result (entries in the same
\* order, the same pairs as from the log without them) and each of them
\* gets exactly one diagnostic.
C9_UndecodableLinesAreInert ==
    pc \in {"done", "raised"} =>
        LET clean == Parse(DecodableLines) IN
        /\ entries = clean.entries
        /\ conversation_pairs = clean.conversation_pairs
        /\ stderr = Cardinality(BadJsonIdx)

\* The records parse is to load: the dict lines that are no summary.
Loaded ==
    LET keep == SelectSeq(log, LAMBDA l : l.kind = "object" /\ l.type # "summary")
    IN [n \in 1..Len(keep) |->
           [type |-> keep[n].type, toolUseResult |-> keep[n].toolUseResult]]

\* C10: no line aborts loading: parse never ends in an exception, and every
\* record of the log is loaded and assembled whatever lines precede it.
C10_NoLineAbortsLoading ==
    /\ pc # "raised"
    /\ pc \in {"build", "done"} => (lineNo = Len(log) /\ entries = Loaded)

\* C11: after parse, entries is exactly the log's parseable records that are
\* no summary, in line order (none added, none missing, none swapped).
C11_EntriesAreNonSummaryRecordsInOrder ==
    pc \in {"build", "done", "raised"} => entries = Loaded

\* C12: conversation_pairs is in log order: an earlier pair has the lower
\* assistant_response, and a pair's tool_results increase.
C12_PairsInLogOrder ==
    /\ \A n \in PairIdx : \A m \in PairIdx :
           n < m => conversation_pairs[n].assistant_response
                        < conversation_pairs[m].assistant_response
    /\ \A n \in PairIdx :
           LET t == conversation_pairs[n].tool_results IN
           \A a \in 1..Len(t) : \A b \in 1..Len(t) : a < b => t[a] < t[b]

\* Assembly finished with two pairs, the first of them with two tool results.
C12_Witness ==
    /\ pc = "done"
    /\ \E n \in PairIdx : \E m \in PairIdx :
           /\ n < m
           /\ Len(conversation_pairs[n].tool_results) >= 2

\* C13: every iteration of the outer loop strictly increases the cursor i,
\* and the loop ends, with i = len(entries).
C13_CursorAdvancesAndLoopEnds ==
    /\ [][(pc = "build" /\ pc' = "build") => i' > i]_vars
    /\ [](pc = "done" => i = Len(entries))
    /\ <>(pc = "done")

\* The loop ended after a turn without a pair and a turn with a pair.
C13_Witness ==
    /\ pc = "done"
    /\ i = Len(entries)
    /\ Len(entries) >= 3
    /\ conversation_pairs # <<>>
    /\ \E u \in PlainUserIdx(entries) : AssistantsInTurn(entries, u) = {}

----------------------------------------------------------------------------
(* Vocabulary of the raw-text diff (spec.md, diff rendering).               *)

\* The rows of one kind among the rows rendered so far, in order.
RowsOf(kind) == SelectSeq(output_lines, LAMBDA r : r.kind = kind)

\* The number of lines of a text: its line breaks, and one more when text
\* follows the last line break.
LineCount(s) ==
    Cardinality({k \in 1..Len(s) : s[k] = "\n"})
        + (IF s # <<>> /\ s[Len(s)] # "\n" THEN 1 ELSE 0)

\* The rendering of the edit is over.
EditRendered == pc = "edit_done"

\* C16: the raw-text diff of identical inputs is empty: for every text X,
\* the empty text included, _generate_diff_from_tool_input with old_string =
\* new_string = X returns an empty sequence, and the call ends without error
\* and without a row rendered.
C16_DiffOfIdenticalInputsIsEmpty ==
    (pc # "edit_call" /\ old_string = new_string) =>
        /\ diff_lines = <<>>
        /\ output_lines = <<>>
        /\ EditRendered

C16_Witness ==
    /\ EditRendered
    /\ old_string = new_string
    /\ LineCount(old_string) >= 2

\* C17: the raw-text diff from the empty old text to a new text of n >= 1
\* lines yields exactly n add rows numbered 1..n in order, and no delete row.
C17_EmptyOldYieldsNumberedAddRows ==
    (EditRendered /\ old_string = <<>> /\ new_string # <<>>) =>
        /\ Len(RowsOf("add")) = LineCount(new_string)
        /\ \A k \in 1..Len(RowsOf("add")) :
               RowsOf("add")[k].numbered /\ RowsOf("add")[k].num = k
        /\ RowsOf("delete") = <<>>

C17_Witness ==
    /\ EditRendered
    /\ old_string = <<>>
    /\ new_string = <<"a", "\n", "b", "\n">>
    /\ Len(RowsOf("add")) = 2

\* The line is a hunk header of the diff.
IsHunkHeader(line) == Len(line) >= 2 /\ line[1] = "@" /\ line[2] = "@"

\* The numbers v a header writes as '+v' in front of ',' or ' '.
NewStartsOf(line) ==
    {v \in 0..(Len(new_string) + 1) :
        \E p \in 1..Len(line) :
            LET q == p + Len(ToDecimal(v)) + 1 IN
            /\ q <= Len(line)
            /\ SubSeq(line, p, q - 1) = <<"+">> \o ToDecimal(v)
            /\ line[q] \in {",", " "}}

\* A step of the rendering loop over the line at line_idx.
RenderStep == pc = "edit_render" /\ line_idx' = line_idx + 1

\* C18: in the raw-text fallback path the new-line counter starts at 1 and
\* is re-seeded at every '@@' hunk header to that header's new_start (it
\* keeps its value when the header has no parseable '+<number>'); each add
\* row and each context row is emitted at the counter and increments it,
\* and a delete row does not change it.
C18_FallbackCounter ==
    /\ []((pc = "edit_render" /\ line_idx = 0) => line_num = 1)
    /\ [][RenderStep =>
            LET line == diff_lines[line_idx + 1]
                row == output_lines'[Len(output_lines')]
            IN IF IsHunkHeader(line)
               THEN /\ row.kind = "hunk"
                    /\ IF NewStartsOf(line) # {}
                       THEN line_num' \in NewStartsOf(line)
                       ELSE line_num' = line_num
               ELSE IF line[1] = "-"
               THEN /\ row.kind = "delete"
                    /\ ~row.numbered
                    /\ line_num' = line_num
               ELSE /\ row.kind = IF line[1] = "+" THEN "add" ELSE "context"
                    /\ row.numbered
                    /\ row.num = line_num
                    /\ line_num' = line_num + 1]_vars

\* A diff of two hunks, the second of which moves the counter, with rows of
\* every kind.
C18_Witness ==
    /\ EditRendered
    /\ Len(RowsOf("hunk")) = 2
    /\ RowsOf("add") # <<>>
    /\ RowsOf("delete") # <<>>
    /\ \E k \in 1..(Len(output_lines) - 2) :
           /\ output_lines[k].kind = "context"
           /\ output_lines[k + 1].kind = "hunk"
           /\ output_lines[k + 2].numbered
           /\ output_lines[k + 2].num > output_lines[k].num + 1

----------------------------------------------------------------------------
(* Vocabulary of the structured-patch path.                                *)

\* The hunk whose lines are being rendered.
CurrentHunk == patches[hunkNo]

\* A step of the rendering loop over the line at line_idx of the hunk.
PatchStep == pc = "patch_line" /\ line_idx' = line_idx + 1

\* The character a line begins with ("" for the empty line).
Prefix(line) == IF line = <<>> THEN "" ELSE line[1]

\* The rows rendered for the hunk at hand, once its lines are exhausted.
HunkRows ==
    SubSeq(output_lines, Len(output_lines) - Len(CurrentHunk.lines) + 1,
           Len(output_lines))

\* C14: in the structured-patch path, for every hunk the old and new
\* counters start at that hunk's oldStart and newStart; a '-' line is
\* emitted at the old counter and increments only the old counter, a '+'
\* line is emitted at the new counter and increments only the new counter,
\* and any other line is a context line at both counters and increments
\* both; so oldStart=10, newStart=12 with lines ' a','-b','+c',' d' gives a
\* context row at 12 (old 10), a delete row at 11, an add row at 13 and a
\* context row at 14 (old 12).
C14_PatchCounters ==
    /\ []((pc = "patch_line" /\ line_idx = 0) =>
            /\ old_line_num = CurrentHunk.oldStart
            /\ new_line_num = CurrentHunk.newStart)
    /\ [][PatchStep =>
            LET line == CurrentHunk.lines[line_idx + 1]
                row == output_lines'[Len(output_lines')]
            IN IF Prefix(line) = "-"
               THEN /\ row.kind = "delete"
                    /\ row.num = old_line_num
                    /\ old_line_num' = old_line_num + 1
                    /\ new_line_num' = new_line_num
               ELSE IF Prefix(line) = "+"
               THEN /\ row.kind = "add"
                    /\ row.num = new_line_num
                    /\ old_line_num' = old_line_num
                    /\ new_line_num' = new_line_num + 1
               ELSE /\ row.kind = "context"
                    /\ row.num = new_line_num
                    /\ old_line_num' = old_line_num + 1
                    /\ new_line_num' = new_line_num + 1]_vars
    /\ []((pc = "patch_line" /\ CurrentHunk = ExampleHunk /\ line_idx = 4) =>
            /\ [n \in 1..4 |-> HunkRows[n].kind]
                   = <<"context", "delete", "add", "context">>
            /\ [n \in 1..4 |-> HunkRows[n].num] = <<12, 11, 13, 14>>
            /\ old_line_num = 13
            /\ new_line_num = 15)

\* The example hunk has been rendered as the second hunk of a patch.
C14_Witness ==
    /\ pc = "patch_done"
    /\ Len(patches) = 2
    /\ CurrentHunk = ExampleHunk
    /\ Len(output_lines) = 6

\* The number of lines of hunk h that begin with `sign` but not with three
\* of it.
SignedLines(h, sign) ==
    Cardinality({n \in 1..Len(h.lines) :
        /\ Prefix(h.lines[n]) = sign
        /\ ~(Len(h.lines[n]) >= 3 /\ h.lines[n][2] = sign /\ h.lines[n][3] = sign)})

\* The hunk record carries both an 'additions' and a 'deletions' field.
CarriesCounts(h) == h.has_additions /\ h.has_deletions

\* SignedLines summed over the first k hunks.
RECURSIVE SignedLinesUpTo(_, _)
SignedLinesUpTo(sign, k) ==
    IF k = 0 THEN 0
    ELSE SignedLinesUpTo(sign, k - 1) + SignedLines(patches[k], sign)

\* What hunk h contributes to the total of `sign`: its own count when it
\* carries both count fields, the number of its signed lines otherwise.
HunkShare(h, sign) ==
    IF CarriesCounts(h)
    THEN IF sign = "+" THEN h.additions ELSE h.deletions
    ELSE SignedLines(h, sign)

RECURSIVE HunkSharesUpTo(_, _)
HunkSharesUpTo(sign, k) ==
    IF k = 0 THEN 0
    ELSE HunkSharesUpTo(sign, k - 1) + HunkShare(patches[k], sign)

\* The totals of the 'Modified' header have been computed.
TotalsShown == pc \in {"patch_hunk", "patch_line", "patch_done"}

\* C15 (as stated): in the structured-patch path the additions total and
\* the deletions total shown for an edit equal the number of lines prefixed
\* '+' and the number prefixed '-' summed over all hunks' lines, not counting
\* lines that begin with '+++' or '---', whatever other fields the hunk
\* records carry.
C15_TotalsCountSignedLines ==
    TotalsShown =>
        /\ additions = SignedLinesUpTo("+", Len(patches))
        /\ deletions = SignedLinesUpTo("-", Len(patches))

\* C15 (amended): the additions total and the deletions total sum, over the
\* hunks, the hunk's own 'additions' and 'deletions' when the record carries
\* both fields, and otherwise the number of its lines prefixed '+' and '-'
\* that do not begin with '+++' or '---'.
C15_TotalsUseCountsOrSignedLines ==
    TotalsShown =>
        /\ additions = HunkSharesUpTo("+", Len(patches))
        /\ deletions = HunkSharesUpTo("-", Len(patches))

\* Totals shown for a patch with a hunk whose counts differ from its lines,
\* and a hunk without counts that has a '+++' line.
C15_Witness ==
    /\ pc = "patch_done"
    /\ \E k \in 1..Len(patches) :
           /\ CarriesCounts(patches[k])
           /\ patches[k].additions # SignedLines(patches[k], "+")
    /\ \E k \in 1..Len(patches) :
           /\ ~CarriesCounts(patches[k])
           /\ \E n \in 1..Len(patches[k].lines) :
                  patches[k].lines[n] = <<"+", "+", "+">>

----------------------------------------------------------------------------
(* Vocabulary of inline highlighting.                                      *)

\* The characters of a formatted line, each with whether it lies inside a
\* bright (highlighted) span: a bright marker opens a span, RESET closes it.
RECURSIVE MarksFrom(_, _, _)
MarksFrom(text, n, inSpan) ==
    IF n > Len(text) THEN <<>>
    ELSE IF text[n] \in {BG_BRIGHT_RED, BG_BRIGHT_GREEN}
    THEN MarksFrom(text, n + 1, TRUE)
    ELSE IF text[n] = RESET THEN MarksFrom(text, n + 1, FALSE)
    ELSE IF text[n] \in {BG_RED, BG_GREEN} THEN MarksFrom(text, n + 1, inSpan)
    ELSE <<[c |-> text[n], marked |-> inSpan]>> \o MarksFrom(text, n + 1, inSpan)

\* The same for the content of the line, after its '-' or '+'.
ContentMarks(text) == Tail(MarksFrom(text, 1, FALSE))

\* The highlighted characters of the content, in order.
Highlighted(text) ==
    LET m == SelectSeq(ContentMarks(text), LAMBDA x : x.marked)
    IN [n \in 1..Len(m) |-> m[n].c]

\* The characters of the content that are not highlighted, in order.
Unmarked(text) ==
    LET m == SelectSeq(ContentMarks(text), LAMBDA x : ~x.marked)
    IN [n \in 1..Len(m) |-> m[n].c]

\* The example pair has been formatted.
FooPairFormatted ==
    /\ diff_lines = << <<"-">> \o FooBar, <<"+">> \o FooBaz >>
    /\ Len(output_lines) = 2

\* C19 (as stated): for the adjacent delete/add pair "foo bar" / "foo baz"
\* the highlighted span on the delete line is exactly "bar" and on the add
\* line exactly "baz", and "foo " is unmarked on both lines.
C19_HighlightsBarAndBaz ==
    FooPairFormatted =>
        /\ Highlighted(output_lines[1].text) = <<"b", "a", "r">>
        /\ Highlighted(output_lines[2].text) = <<"b", "a", "z">>
        /\ Unmarked(output_lines[1].text) = <<"f", "o", "o", " ">>
        /\ Unmarked(output_lines[2].text) = <<"f", "o", "o", " ">>

\* C19 (amended): for that pair the highlighted span on the delete line is
\* exactly "r" and on the add line exactly "z", and "foo ba" is unmarked on
\* both lines.
C19_HighlightsLastCharacter ==
    FooPairFormatted =>
        /\ [n \in 1..7 |-> ContentMarks(output_lines[1].text)[n].marked]
               = <<FALSE, FALSE, FALSE, FALSE, FALSE, FALSE, TRUE>>
        /\ [n \in 1..7 |-> ContentMarks(output_lines[2].text)[n].marked]
               = <<FALSE, FALSE, FALSE, FALSE, FALSE, FALSE, TRUE>>
        /\ Highlighted(output_lines[1].text) = <<"r">>
        /\ Highlighted(output_lines[2].text) = <<"z">>
        /\ Unmarked(output_lines[1].text) = <<"f", "o", "o", " ", "b", "a">>
        /\ Unmarked(output_lines[2].text) = <<"f", "o", "o", " ", "b", "a">>

C19_Witness ==
    /\ FooPairFormatted
    /\ pc = "format_done"
    /\ output_lines[1].branch = "pair_delete"
    /\ output_lines[2].branch = "pair_add"

\* Line n (1-based) is a '-' line highlighted against the line after it.
HighlightedAgainstNext(n) == output_lines[n].branch = "pair_delete"

\* Line n is a '+' line highlighted against the line before it.
HighlightedAgainstPrevious(n) == output_lines[n].branch = "pair_add"

\* Position p of the old (side = "old") or new content lies in a span the
\* matcher tags with one of `tags`.
InSpanTagged(codes, side, p, tags) ==
    \E k \in 1..Len(codes) :
        /\ codes[k].tag \in tags
        /\ IF side = "old" THEN codes[k].i1 < p /\ p <= codes[k].i2
           ELSE codes[k].j1 < p /\ p <= codes[k].j2

\* The content of a line, and the marks the pair of lines n, n + 1 must show.
Content(line) == SubSeq(line, 2, Len(line))

ExpectedMarks(content, codes, side, tags) ==
    [p \in 1..Len(content) |->
        [c |-> content[p], marked |-> InSpanTagged(codes, side, p, tags)]]

\* C20: character-level highlighting detects 1:1 modifications only: a '-'
\* line at index i is highlighted against the '+' line at i+1 exactly when
\* the '+' line at i+1 is highlighted against the '-' line at i; no line
\* takes part in two pairs; and within a pair the delete line marks exactly
\* the spans tagged delete or replace, the add line exactly the spans tagged
\* insert or replace, and equal spans are unmarked.
C20_PairsAreOneToOne ==
    pc = "format_done" =>
        /\ \A n \in 1..(Len(output_lines) - 1) :
               HighlightedAgainstNext(n) <=> HighlightedAgainstPrevious(n + 1)
        /\ Len(output_lines) > 0 =>
               /\ ~HighlightedAgainstNext(Len(output_lines))
               /\ ~HighlightedAgainstPrevious(1)
        /\ \A n \in 1..Len(output_lines) :
               ~(HighlightedAgainstNext(n) /\ HighlightedAgainstPrevious(n))
        /\ \A n \in 1..(Len(output_lines) - 1) :
               HighlightedAgainstNext(n) =>
                   LET old == Content(diff_lines[n])
                       new == Content(diff_lines[n + 1])
                       codes == GetOpcodes(old, new)
                   IN /\ diff_lines[n][1] = "-"
                      /\ diff_lines[n + 1][1] = "+"
                      /\ ContentMarks(output_lines[n].text)
                             = ExpectedMarks(old, codes, "old",
                                             {"delete", "replace"})
                      /\ ContentMarks(output_lines[n + 1].text)
                             = ExpectedMarks(new, codes, "new",
                                             {"insert", "replace"})

\* A list with a pair between a '-' line and a '+' line that stand alone.
C20_Witness ==
    /\ pc = "format_done"
    /\ Len(output_lines) = 4
    /\ [n \in 1..4 |-> output_lines[n].branch]
           = <<"solid_delete", "pair_delete", "pair_add", "solid_add">>
    /\ Highlighted(output_lines[2].text) = <<"a">>
    /\ Highlighted(output_lines[3].text) = <<"b">>

\* The line at position n (1-based) of the list begins with sign.
LineBegins(n, sign) ==
    n \in 1..Len(diff_lines) /\ diff_lines[n] # <<>> /\ diff_lines[n][1] = sign

\* The formatted text has a bright (partial highlight) marker.
HasBrightSpan(text) ==
    \E k \in 1..Len(text) : text[k] \in {BG_BRIGHT_RED, BG_BRIGHT_GREEN}

\* C21: a '-' line not immediately followed by a '+' line, and a '+' line
\* not immediately preceded by a '-' line, is rendered as wholly changed
\* (the whole line in the delete or add colour) with no partial (bright)
\* highlight span; a context line is returned unchanged.
C21_UnpairedLinesAreWhollyChanged ==
    \A n \in 1..Len(output_lines) :
        /\ (LineBegins(n, "-") /\ ~LineBegins(n + 1, "+")) =>
               /\ output_lines[n].text = <<BG_RED>> \o diff_lines[n] \o <<RESET>>
               /\ ~HasBrightSpan(output_lines[n].text)
        /\ (LineBegins(n, "+") /\ ~LineBegins(n - 1, "-")) =>
               /\ output_lines[n].text = <<BG_GREEN>> \o diff_lines[n] \o <<RESET>>
               /\ ~HasBrightSpan(output_lines[n].text)
        /\ (~LineBegins(n, "-") /\ ~LineBegins(n, "+")) =>
               output_lines[n].text = diff_lines[n]

\* A '-' line before a context line, a '+' line after it, and an empty line.
C21_Witness ==
    /\ pc = "format_done"
    /\ diff_lines = << <<"-", "a">>, <<" ", "a">>, <<"+", "b">>, <<>> >>
    /\ output_lines[1].text = <<BG_RED, "-", "a", RESET>>

\* The length of a longest common subsequence of the strings a and b.
RECURSIVE LCS(_, _)
LCS(a, b) ==
    IF a = <<>> \/ b = <<>> THEN 0
    ELSE IF Head(a) = Head(b) THEN 1 + LCS(Tail(a), Tail(b))
    ELSE Max(LCS(Tail(a), b), LCS(a, Tail(b)))

\* C22: for every paired delete/add line the highlighted region is minimal:
\* the number of highlighted characters on the delete line plus the number
\* on the add line equals len(old) + len(new) - 2 * LCS(old, new).
C22_HighlightIsMinimal ==
    \A n \in 1..(Len(output_lines) - 1) :
        (HighlightedAgainstNext(n) /\ HighlightedAgainstPrevious(n + 1)) =>
            Len(Highlighted(output_lines[n].text))
                + Len(Highlighted(output_lines[n + 1].text))
            = Len(Content(diff_lines[n])) + Len(Content(diff_lines[n + 1]))
                  - 2 * LCS(Content(diff_lines[n]), Content(diff_lines[n + 1]))

----------------------------------------------------------------------------
(* Vocabulary of the rendering of a ToolUse.                               *)

\* The ToolUse has been rendered and no ToolResult was resolved for it.
RenderedWithoutResult == pc = "tool_done" /\ ret.kind = "None"

\* What was rendered for the ToolUse below its tool line.
BelowToolLine == Tail(resp_lines)

\* C23: when a ToolUse has no resolvable ToolResult: if its name is a
\* file-editing tool (Edit or MultiEdit) the fallback diff computed from the
\* ToolUse's own before/after text is rendered, and for every other tool
\* name a generic completed placeholder is rendered for that ToolUse.
C23_MissingResultIsRendered ==
    RenderedWithoutResult =>
        IF tool_name \in {"Edit", "MultiEdit"}
        THEN old_string # new_string =>
                 /\ Len(BelowToolLine) = 1
                 /\ BelowToolLine[1].kind = "edit"
                 /\ BelowToolLine[1].text = output_lines
        ELSE BelowToolLine # <<>>

----------------------------------------------------------------------------
(* Vocabulary of repeated assembly.                                        *)

\* The pairs a new formatter holds after its first parse of the log.
FirstRunPairs == Parse(log).conversation_pairs

\* C24: assembly is a pure function of the event sequence and keeps no
\* accumulated state: running parse / _build_conversation_pairs a second
\* time on the same formatter and the same log leaves conversation_pairs
\* equal to the sequence obtained after the first run.
C24_SecondRunChangesNothing ==
    pc = "done" => conversation_pairs = FirstRunPairs

\* The assistant events of the entries.
AssistantIdx(es) == {a \in Indices(es) : es[a + 1].type = "assistant"}

\* The pairs whose assistant_response is the entry at index a.
PairsOf(a) == {n \in PairIdx : conversation_pairs[n].assistant_response = a}

\* C25: every assistant event that comes after the first plain user event
\* is the assistant_response of exactly one pair, and every assistant event
\* before it is the assistant_response of no pair; resuming the scan at
\* last_processed_index + 1 never emits a pair a second time.
C25_EachAssistantPairedOnce ==
    pc = "done" =>
        \A a \in AssistantIdx(entries) :
            IF \E u \in PlainUserIdx(entries) : u < a
            THEN Cardinality(PairsOf(a)) = 1
            ELSE PairsOf(a) = {}

\* Assembly finished on a log that begins with a carrier and an assistant
\* event, followed by a turn with two assistant events.
C25_Witness ==
    /\ pc = "done"
    /\ Len(entries) >= 5
    /\ Carrier(entries[1])
    /\ entries[2].type = "assistant"
    /\ PlainUser(entries[3])
    /\ Cardinality(AssistantsInTurn(entries, 2)) >= 2

----------------------------------------------------------------------------
(* Vocabulary of the text carried by a formatted line.                     *)

ColourMarkers == {BG_RED, BG_GREEN, BG_BRIGHT_RED, BG_BRIGHT_GREEN, RESET}

\* The characters of a formatted line, its colour markers removed.
StripMarkers(text) == SelectSeq(text, LAMBDA x : x \notin ColourMarkers)

\* C26: highlighting never alters the text: the concatenation of the spans
\* emitted for a paired delete line, markers removed, is the old content, and
\* for a paired add line it is the new content.
C26_HighlightKeepsText ==
    \A n \in 1..Len(output_lines) :
        (HighlightedAgainstNext(n) \/ HighlightedAgainstPrevious(n)) =>
            /\ StripMarkers(output_lines[n].text) # <<>>
            /\ Content(StripMarkers(output_lines[n].text)) = Content(diff_lines[n])

\* Both lines of a pair with an inserted, an equal and a deleted range have
\* been formatted.
C26_Witness ==
    /\ pc = "format_done"
    /\ diff_lines = << <<"-", "a", "a", "a">>, <<"+", "a", "b", "a", "a">> >>
    /\ HighlightedAgainstNext(1)
    /\ HighlightedAgainstPrevious(2)

----------------------------------------------------------------------------
(* Vocabulary of the totals of a rendered edit.                            *)

\* The rendering of the edit has returned.
PatchRendered == pc = "patch_done"

\* C27: for every rendered edit the additions total and the deletions total
\* of the header equal the number of add rows and the number of delete rows
\* rendered below it, whatever the content of the lines (text that begins
\* with '++' or '--' included).
C27_TotalsMatchRows ==
    PatchRendered =>
        /\ additions = Len(RowsOf("add"))
        /\ deletions = Len(RowsOf("delete"))

----------------------------------------------------------------------------
(* Vocabulary of the output of format_entries.                             *)

\* The pairs of the turn opened at u.
PairsOfTurn(u) == {n \in PairIdx : conversation_pairs[n].user_message = u}

\* The positions of `output` that hold the formatted user message of the
\* turn opened at u.
UserRowsOfTurn(u) ==
    {k \in 1..Len(output) :
        /\ output[k].kind = "user"
        /\ output[k].pair + 1 \in PairsOfTurn(u)}

\* The user message of the turn has text to show.
HasText(e) == e.body # ""

\* C28: in format_entries every turn that produced at least one pair has
\* its user message formatted exactly once, immediately before the output of
\* the turn's first pair, and never again before the turn's later pairs;
\* also when two consecutive turns have user events with equal contents.
\* (A user message without text to show is formatted to the empty string and
\* leaves nothing in the output; such turns are not constrained here.)
C28_UserMessageOncePerTurn ==
    pc = "entries_done" =>
        \A u \in PlainUserIdx(entries) :
            (PairsOfTurn(u) # {} /\ HasText(entries[u + 1])) =>
                /\ Cardinality(UserRowsOfTurn(u)) = 1
                /\ \A k \in UserRowsOfTurn(u) :
                       /\ output[k].pair + 1 = Least(PairsOfTurn(u))
                       /\ output[k - 1].pair < output[k].pair
                              \/ output[k - 1].kind = "banner"

----------------------------------------------------------------------------
(* Vocabulary of the menu.                                                 *)

\* The menu has been printed and waits for a key.
MenuRendered == pc = "menu_key"

\* The items of the window printed last.
DisplayedWindow ==
    {n \in window_start..(window_start + 9) : n < Len(items)}

\* The menu returned on a number shortcut.
ReturnedOnDigit == pc = "menu_done" /\ IsDigit(key)

----------------------------------------------------------------------------
(* Vocabulary of the session settings.                                     *)

\* The interactive session exists.
SessionStarted == pc = "session"

\* C30: the settings no_color and force_color of an InteractiveSession are
\* never both true: not in the initial state main() builds for any
\* combination of flags, and not after any sequence of configure_output
\* choices.
C30_NoColorExcludesForceColor ==
    SessionStarted => ~(settings.no_color /\ settings.force_color)

====
